---- MODULE Spec2Model ----
(***************************************************************************)
(* Verification model of codex-orchestrator.                               *)
(*                                                                         *)
(* Two state machines share this module:                                   *)
(*   - the BotOrchestrator request handler (core/orchestrator.py) over the *)
(*     SessionManager's persisted records (core/session_manager.py,        *)
(*     core/models.py), specification Spec;                                *)
(*   - PlanWorkflow.run (workflows/plan_agent_workflow.py), specifications *)
(*     PlanSpec and FairPlanSpec.                                          *)
(*                                                                         *)
(* The process runs one asyncio event loop.  A step of the model is the    *)
(* code a task executes between two points where it really suspends.      *)
(* SessionManager.load/save/reset contain no await, and acquiring an       *)
(* asyncio.Lock that nobody holds does not suspend, so every               *)
(* `async with session_manager.lock(...)` block runs to its end without    *)
(* yielding; the only suspension points of a request are the executor      *)
(* calls made inside workflow.run.                                         *)
(***************************************************************************)
EXTENDS Naturals, Sequences, FiniteSets

\* ------------------------------------------------------------------ bounds
MaxRequests == 3
MaxRounds == 3

\* Most phrases in an executor answer that is not an echo.
MaxPhrases == 2

\* Most workflow runs of one session that return.
MaxRuns == 11

\* Most tokens of a text.
MaxTokens == 2

\* Most calls of task.cancel() on the task of an executor.
MaxCancels == 2

\* Most calls of run() on an executor.
MaxCalls == 3

\* Most retries of a role of the multi workflow (max_role_retries, 1 as built).
MaxRoleRetries == 1

\* Most updates the polling loop handles.
MaxUpdates == 4

Sessions == {"s1", "s2"}
Req == 1..MaxRequests

NoTask == 0
None == "none"

VARIABLES
    disk,       \* session file per key: Missing or the record save() wrote
    running,    \* BotOrchestrator._running_tasks: session -> task or NoTask
    req,        \* per handle_message call: position, input, reply, observation
    plan,       \* local state of one PlanWorkflow.run invocation
    store,      \* one session file, its .tmp sibling and a SessionManager call on them
    lk,         \* the asyncio locks and the tasks acquiring them
    stage,      \* one call of a stage agent of the plan workflow
    hist,       \* a session's history across workflow runs
    route,      \* one text and the RouteResult CommandRouter.route gives for it
    single,     \* local state of one SingleAgentWorkflow.run invocation
    executor,   \* a CodexMcpExecutor and the task running its run()
    multi,      \* local state of one MultiAgentWorkflow.run invocation
    review,     \* one Reviewer answer and the decision _parse_review makes of it
    poll        \* the polling loop, its active_request_task and the wait after /cancel

vars == <<disk, running, req, plan, store, lk, stage, hist, route, single, executor, multi, review, poll>>

\* ------------------------------------------------------- core/models.py
RunStatus == {"idle", "ok", "error"}

ReviewResult == {"approved", "needs_changes", "max_rounds_reached"}

\* The BotSession field defaults, as the content of a session file.  `exists`
\* says that the file is there and `form` how its text parses: "ok" when it
\* is a JSON object carrying the three identity keys, "unreadable" when
\* json.load or from_dict fails with an error load() catches (truncated text,
\* a missing identity key), "not_object" when it is JSON but no object.
\* session_id, chat_id and user_id are all derived from the key (chat_id,
\* user_id), which one token stands for.  updated_at is left out.
BlankSession ==
    [ exists              |-> TRUE,
      form                |-> "ok",
      session_id          |-> None,
      chat_id             |-> None,
      user_id             |-> None,
      mode                |-> "single",
      history             |-> << >>,
      run_lock            |-> FALSE,
      last_error          |-> None,
      last_run_status     |-> "idle",
      last_review_round   |-> 0,
      last_review_result  |-> None,
      profile_name        |-> "default",
      profile_data        |-> "bare" ]

\* SessionManager._new_session
NewSession(key) ==
    [BlankSession EXCEPT !.session_id = key, !.chat_id = key, !.user_id = key]

\* No session file at the key's path.
Missing == [BlankSession EXCEPT !.exists = FALSE]

\* BotSession.from_dict: field normalisation when a record is read back.
FromDict(payload) ==
    [ payload EXCEPT
        !.mode = IF payload.mode \in {"single", "multi"} THEN payload.mode ELSE "single",
        !.last_run_status = IF payload.last_run_status \in RunStatus
                            THEN payload.last_run_status ELSE "idle",
        !.last_review_result = IF payload.last_review_result \in ReviewResult
                               THEN payload.last_review_result ELSE None ]

\* ---------------------------------------------- core/session_manager.py
\* SessionManager.load: a missing file gives a new session; an existing one is
\* parsed by from_dict and then its run_lock is overwritten with False.
\* A file that is unreadable gives a new session marked "session_load_failed".
Load(key, rec) ==
    IF ~rec.exists THEN NewSession(key)
    ELSE IF rec.form # "ok" THEN [NewSession(key) EXCEPT !.last_error = "session_load_failed"]
    ELSE [FromDict(rec) EXCEPT !.run_lock = FALSE]

\* load() lets the exception through when the text is JSON but not an object:
\* from_dict calls payload.get and AttributeError is not among the caught
\* (json.JSONDecodeError, KeyError, OSError, ValueError).
LoadRaises(rec) == rec.exists /\ rec.form = "not_object"

\* SessionManager.save: to_dict of the session replaces the file.
Save(d, s, session) == [d EXCEPT ![s] = [session EXCEPT !.exists = TRUE, !.form = "ok"]]

\* SessionManager.reset: a new session is saved and returned.
Reset(d, s) == Save(d, s, NewSession(s))

\* Variant of reset() that carries the old history over.
ResetReturnKeepsHistory(d, s) == [NewSession(s) EXCEPT !.history = Load(s, d[s]).history]

\* The session reset() hands back to its caller (line 94).
ResetReturn(d, s) == NewSession(s)

\* ------------------------------------------------- core/orchestrator.py
\* The registry of the orchestrator under test: two profiles with their own
\* model and working directory, "default" being the default.
Profiles == {"default", "bridge"}
DefaultProfile == "default"

\* BotOrchestrator._apply_profile_to_session
ApplyProfile(session, p) ==
    [session EXCEPT !.profile_name = p, !.profile_data = p]

\* BotOrchestrator._ensure_session_profile: the returned flag ...
ProfileChanged(session) ==
    \/ session.profile_name \notin Profiles
    \/ session.profile_data # session.profile_name

\* ... and the session it leaves.
EnsureProfile(session) ==
    IF session.profile_name \notin Profiles THEN ApplyProfile(session, DefaultProfile)
    ELSE IF session.profile_data # session.profile_name
         THEN ApplyProfile(session, session.profile_name)
         ELSE session

\* `if changed: await save(session)`
SaveIf(changed, d, s, session) == IF changed THEN Save(d, s, session) ELSE d

\* `session.run_lock = True` before the workflow starts (line 245).
MarkRunning(session) == [session EXCEPT !.run_lock = TRUE]

\* The workflow chosen from the loaded session's mode (lines 247-250).
SelectWorkflow(session) == IF session.mode = "single" THEN "single" ELSE "plan"

\* What a workflow hands back to the orchestrator: review_round and
\* review_result of a WorkflowResult.
WorkflowResults ==
    { [review_round |-> 0, review_result |-> "approved",
       next_history |-> <<"user", "assistant">>],
      [review_round |-> 1, review_result |-> "needs_changes",
       next_history |-> <<"user", "assistant">>] }

\* The merge of a finished run into the latest record (lines 261-270).
MergeResult(latest, result) ==
    [latest EXCEPT !.history = result.next_history,
                   !.last_run_status = "ok",
                   !.last_error = None,
                   !.last_review_round = result.review_round,
                   !.last_review_result = result.review_result,
                   !.run_lock = FALSE]

\* Variants of the CancelledError clause: one that forgets the status fields,
\* one that records a status of its own.
OnCancelledNoStatus(latest) == [latest EXCEPT !.run_lock = FALSE]

OnCancelledOwnStatus(latest) ==
    [latest EXCEPT !.last_run_status = "cancelled",
                   !.last_error = "cancelled",
                   !.run_lock = FALSE]

\* `except asyncio.CancelledError` (lines 280-283).
OnCancelled(latest) ==
    [latest EXCEPT !.last_run_status = "error",
                   !.last_error = "cancelled",
                   !.run_lock = FALSE]

\* `except Exception` (lines 288-291).
OnException(latest, msg) ==
    [latest EXCEPT !.last_run_status = "error",
                   !.last_error = msg,
                   !.run_lock = FALSE]

\* BotOrchestrator._mark_error: load, mark, save.
MarkError(d, s, msg) ==
    Save(d, s, [Load(s, d[s]) EXCEPT !.last_run_status = "error",
                                  !.last_error = msg,
                                  !.run_lock = FALSE])

\* BotOrchestrator._set_running_task
SetRunningTask(reg, s, task) == [reg EXCEPT ![s] = task]

\* BotOrchestrator._clear_running_task: only the registered task is removed.
ClearRunningTask(reg, s, task) ==
    IF reg[s] = task THEN [reg EXCEPT ![s] = NoTask] ELSE reg

\* BotOrchestrator._get_running_task: a finished task is dropped and not returned.
GetRunningTask(reg, s, rq) ==
    IF reg[s] # NoTask /\ rq[reg[s]].pc = "done" THEN NoTask ELSE reg[s]

RegistryAfterGet(reg, s, rq) ==
    IF reg[s] # NoTask /\ rq[reg[s]].pc = "done" THEN [reg EXCEPT ![s] = NoTask] ELSE reg

\* Variant of the /cancel reply that ignores whether a task was found.
CancelReplyAlwaysRequested(task) == "requested"

\* The reply of /cancel from the task it found (lines 208-219).
CancelReply(task) == IF task = NoTask THEN "no_running_task" ELSE "requested"

\* The stale-flag reconciliation of /cancel (lines 209-215).
ReconcileStale(d, s, run_lock) ==
    IF run_lock /\ Load(s, d[s]).run_lock
    THEN Save(d, s, [Load(s, d[s]) EXCEPT !.run_lock = FALSE])
    ELSE d

\* The user-visible text handle_message builds for a failed workflow (lines 63-77).
ErrorReply(exc) == IF exc = "CodexExecutionError" THEN "config_error" ELSE "internal_error"

\* `if len(detail) > 280` (line 65) and `detail[:280]` (line 66).
DetailLimit == 280

\* An exception is its class and str(exc): the text, its length, and how many
\* of its characters are leading or trailing whitespace.
NoError == [type |-> None, text |-> None, len |-> 0, pad |-> 0]

\* What a reply carries of a message: how many of the message's characters,
\* whether "..." follows them, whether "unknown error" stands in for them.
NoDetail == [chars |-> 0, ellipsis |-> FALSE, unknown |-> FALSE]

\* Variant that never cuts the detail.
DetailUncut(err) ==
    [chars |-> err.len - err.pad, ellipsis |-> FALSE, unknown |-> err.len = err.pad]

\* `detail = str(exc).strip() or "unknown error"`, then the cut (lines 64-66).
Detail(err) ==
    LET stripped == err.len - err.pad
    IN IF stripped = 0 THEN [chars |-> 0, ellipsis |-> FALSE, unknown |-> TRUE]
       ELSE IF stripped > DetailLimit
            THEN [chars |-> DetailLimit, ellipsis |-> TRUE, unknown |-> FALSE]
            ELSE [chars |-> stripped, ellipsis |-> FALSE, unknown |-> FALSE]

\* The detail line of the reply: only the configuration-error reply has one.
ReplyDetail(err) == IF err.type = "CodexExecutionError" THEN Detail(err) ELSE NoDetail

\* The exception text a reply to a failed workflow shows; the cut detail of a
\* configuration error is its message, whole or as a prefix.
ReplyShows(err) ==
    IF err.type = "CodexExecutionError" /\ ~Detail(err).unknown THEN err.text ELSE None

\* _format_status, line 414: `last_error={session.last_error or '-'}`.
StatusShows(session) ==
    IF session.last_error \in {None, ""} THEN "-" ELSE session.last_error

\* ------------------------------------------------------------ requests
IdleReq ==
    [ pc |-> "idle", kind |-> None, sess |-> None, arg |-> None, reply |-> None,
      cancelling |-> FALSE, workflow |-> None, outcome |-> None, in_flight |-> FALSE,
      blocked_by |-> None, error |-> NoError, detail |-> NoDetail, shown |-> None,
      mode |-> None,
      seen |-> Missing ]

\* The field mode is the mode a command's reply reports.
\* Requests are numbered in the order handle_message is entered.
NextFree(r) == req[r].pc = "idle" /\ \A q \in Req : q < r => req[q].pc # "idle"

\* Some workflow of session s is suspended in workflow.run.
RunInFlight(s) == \E q \in Req : req[q].pc = "in_workflow" /\ req[q].sess = s

\* handle_message returns: the reply, and the record a reader would then find.
Finish(rq, r, s, kind, arg, reply, d) ==
    [rq EXCEPT ![r] = [@ EXCEPT !.pc = "done", !.kind = kind, !.sess = s, !.arg = arg,
                                !.reply = reply, !.seen = d[s]]]

\* ------------------------------------------------------- bot commands
\* /start: reads the mode, writes nothing (lines 121-131).
CmdStart(r, s) ==
    /\ NextFree(r)
    /\ req' = [Finish(req, r, s, "start", None, "help", disk)
                  EXCEPT ![r].mode = Load(s, disk[s]).mode]
    /\ UNCHANGED <<disk, running, plan, store, lk, stage, hist, route, single, executor, multi, review, poll>>

ModeArgs == {"single", "plan", "bogus"}

\* /mode <arg> (lines 133-143).
CmdMode(r, s, mode) ==
    /\ NextFree(r)
    /\ LET d == IF mode \notin {"single", "plan"} THEN disk
                ELSE Save(disk, s, [Load(s, disk[s]) EXCEPT !.mode = mode, !.last_error = None])
           reply == IF mode \notin {"single", "plan"} THEN "usage_error" ELSE "mode_set"
       IN /\ disk' = d
          /\ req' = [Finish(req, r, s, "mode", mode, reply, d)
                        EXCEPT ![r].mode = IF reply = "mode_set" THEN mode ELSE None]
    /\ UNCHANGED <<running, plan, store, lk, stage, hist, route, single, executor, multi, review, poll>>

\* /new (lines 145-150).
CmdNew(r, s) ==
    /\ NextFree(r)
    /\ LET d == Save(Reset(disk, s), s, ApplyProfile(ResetReturn(disk, s), DefaultProfile))
       IN /\ disk' = d
          /\ req' = [Finish(req, r, s, "new", None, "session_reset", d)
                        EXCEPT ![r].mode = ResetReturn(disk, s).mode]
    /\ UNCHANGED <<running, plan, store, lk, stage, hist, route, single, executor, multi, review, poll>>

\* /status (lines 152-158).
CmdStatus(r, s) ==
    /\ NextFree(r)
    /\ LET session == Load(s, disk[s])
           d == SaveIf(ProfileChanged(session), disk, s, EnsureProfile(session))
       IN /\ disk' = d
          /\ req' = [Finish(req, r, s, "status", None, "status", d)
                        EXCEPT ![r].shown = StatusShows(EnsureProfile(session)),
                               ![r].mode = session.mode]
    /\ UNCHANGED <<running, plan, store, lk, stage, hist, route, single, executor, multi, review, poll>>

ProfileArgs == {"", "list", "bridge", "nope"}

\* /profile <arg> (lines 160-196).
CmdProfile(r, s, profile_arg) ==
    /\ NextFree(r)
    /\ LET session == Load(s, disk[s])
           ensured == EnsureProfile(session)
           switch == profile_arg \in Profiles
           d == IF switch
                THEN Save(disk, s, [ApplyProfile(ensured, profile_arg) EXCEPT !.last_error = None])
                ELSE SaveIf(ProfileChanged(session), disk, s, ensured)
           reply == IF profile_arg = "" THEN "usage_error"
                    ELSE IF profile_arg = "list" THEN "profile_list"
                    ELSE IF switch THEN "profile_set" ELSE "profile_not_found"
       IN /\ disk' = d
          /\ req' = Finish(req, r, s, "profile", profile_arg, reply, d)
    /\ UNCHANGED <<plan, store, lk, stage, hist, route, single, executor, multi, review, poll>>
    /\ UNCHANGED running

\* /cancel (lines 198-219).  task.cancel() marks the task; the CancelledError is
\* raised in it when the event loop next resumes it.
CmdCancel(r, s) ==
    /\ NextFree(r)
    /\ LET session == Load(s, disk[s])
           d1 == SaveIf(ProfileChanged(session), disk, s, EnsureProfile(session))
           run_lock == session.run_lock
           running_task == GetRunningTask(running, s, req)
           d2 == IF running_task = NoTask THEN ReconcileStale(d1, s, run_lock) ELSE d1
           rq == IF running_task = NoTask THEN req
                 ELSE [req EXCEPT ![running_task].cancelling = TRUE]
       IN /\ disk' = d2
          /\ running' = RegistryAfterGet(running, s, req)
          /\ req' = [Finish(rq, r, s, "cancel", None, CancelReply(running_task), d2)
                        EXCEPT ![r].in_flight = RunInFlight(s)]
    /\ UNCHANGED <<plan, store, lk, stage, hist, route, single, executor, multi, review, poll>>

\* --------------------------------------------------- workflow messages
\* _handle_workflow_message up to the first suspension inside workflow.run
\* (lines 231-259): busy check, flag set and saved, task registered.
StartWorkflow(r, s) ==
    /\ NextFree(r)
    /\ LET loaded == Load(s, disk[s])
           session == EnsureProfile(loaded)
       IN IF session.run_lock
          THEN LET d == SaveIf(ProfileChanged(loaded), disk, s, session)
               IN /\ disk' = d
                  /\ running' = running
                  /\ req' = [Finish(req, r, s, "text", None, "busy", d)
                                EXCEPT ![r].outcome = "busy"]
          ELSE /\ disk' = Save(disk, s, MarkRunning(session))
               /\ running' = SetRunningTask(running, s, r)
               /\ req' = [req EXCEPT ![r] = [@ EXCEPT !.pc = "in_workflow", !.kind = "text",
                                                     !.sess = s,
                                                     !.workflow = SelectWorkflow(session)]]
    /\ UNCHANGED <<plan, store, lk, stage, hist, route, single, executor, multi, review, poll>>

InWorkflow(r) == req[r].pc = "in_workflow"

\* workflow.run returns a result; it is merged and the reply is its output
\* (lines 259-277, 294-296).
WorkflowReturns(r, result) ==
    /\ InWorkflow(r)
    /\ ~req[r].cancelling
    /\ LET s == req[r].sess
           d == Save(disk, s, MergeResult(Load(s, disk[s]), result))
       IN /\ disk' = d
          /\ running' = ClearRunningTask(running, s, r)
          /\ req' = [Finish(req, r, s, "text", None, "output", d) EXCEPT ![r].outcome = "ok"]
    /\ UNCHANGED <<plan, store, lk, stage, hist, route, single, executor, multi, review, poll>>

Exceptions == {"CodexExecutionError", "Exception"}

\* workflow.run raises: the except clause records the error and re-raises, the
\* finally clause unregisters the task, and handle_message turns the exception
\* into a reply and calls _mark_error (lines 286-296, 63-77).
Raises(r, err) ==
    /\ InWorkflow(r)
    /\ ~req[r].cancelling
    /\ LET s == req[r].sess
           d1 == Save(disk, s, OnException(Load(s, disk[s]), err.text))
           d2 == MarkError(d1, s, err.text)
       IN /\ disk' = d2
          /\ running' = ClearRunningTask(running, s, r)
          /\ req' = [Finish(req, r, s, "text", None, ErrorReply(err.type), d2)
                        EXCEPT ![r].outcome = "error",
                               ![r].error = err,
                               ![r].detail = ReplyDetail(err),
                               ![r].shown = ReplyShows(err)]
    /\ UNCHANGED <<plan, store, lk, stage, hist, route, single, executor, multi, review, poll>>

\* One exception of each class, its message named after the class: a
\* configuration error longer than the limit and a short internal error.
ErrorOf(exc) ==
    [type |-> exc, text |-> exc, pad |-> 0,
     len |-> IF exc = "CodexExecutionError" THEN DetailLimit + 1 ELSE 1]

WorkflowRaises(r, exc) == Raises(r, ErrorOf(exc))

\* Variant without an `except asyncio.CancelledError` clause: CancelledError is
\* no Exception, so neither clause records anything and only finally runs.
WorkflowCancelledNoCleanup(r) ==
    /\ InWorkflow(r)
    /\ req[r].cancelling
    /\ disk' = disk
    /\ running' = ClearRunningTask(running, req[r].sess, r)
    /\ req' = [Finish(req, r, req[r].sess, "text", None, None, disk)
                  EXCEPT ![r].outcome = "cancelled"]
    /\ UNCHANGED <<plan, store, lk, stage, hist, route, single, executor, multi, review, poll>>

\* The CancelledError requested by /cancel is raised at the executor call the
\* task is suspended in and propagates out of workflow.run (lines 278-285, 294-296).
WorkflowCancelled(r) ==
    /\ InWorkflow(r)
    /\ req[r].cancelling
    /\ LET s == req[r].sess
           d == Save(disk, s, OnCancelled(Load(s, disk[s])))
       IN /\ disk' = d
          /\ running' = ClearRunningTask(running, s, r)
          /\ req' = [Finish(req, r, s, "text", None, "cancel_done", d)
                        EXCEPT ![r].outcome = "cancelled"]
    /\ UNCHANGED <<plan, store, lk, stage, hist, route, single, executor, multi, review, poll>>

\* ------------------------------ core/session_manager.py, file by file
\* One key's session file and its ".tmp" sibling, with save() taken in the
\* steps the file system can observe: the temporary file is opened for
\* writing (and so truncated), its text is written, and os.replace puts it in
\* the place of the session file.  The process may die between any two steps.
StoreKey == "s1"

\* A file whose text is not (or not yet) a whole JSON document.
Truncated == [BlankSession EXCEPT !.form = "unreadable"]

\* A file whose text is JSON but not an object, e.g. `[]`.
NotObject == [BlankSession EXCEPT !.form = "not_object"]

\* What the orchestrator leaves in last_run_status, last_error,
\* last_review_round and last_review_result.
RunStates ==
    { [status |-> "idle",  error |-> None,        round |-> 0, result |-> None],
      [status |-> "ok",    error |-> None,        round |-> 1, result |-> "approved"],
      [status |-> "error", error |-> "cancelled", round |-> 0, result |-> None] }

\* The records save() writes for the key in the course of the orchestrator's
\* operations: /mode stores "single" or "plan", a started run stores run_lock
\* true, a finished run stores its history and outcome.
PersistedRecords ==
    { [NewSession(StoreKey) EXCEPT !.mode = m, !.run_lock = b, !.history = h,
                                   !.last_run_status = rs.status, !.last_error = rs.error,
                                   !.last_review_round = rs.round,
                                   !.last_review_result = rs.result]
        : m \in {"single", "plan"}, b \in BOOLEAN,
          h \in {<< >>, <<"user", "assistant">>}, rs \in RunStates }

\* session.to_dict() as the text of a file.
ToDict(session) == [session EXCEPT !.exists = TRUE, !.form = "ok"]

\* What a caller does to the loaded session before it saves it.
Changes == {"none", "mode_plan", "mark_error"}

Change(session, change) ==
    IF change = "mode_plan" THEN [session EXCEPT !.mode = "plan", !.last_error = None]
    ELSE IF change = "mark_error"
         THEN [session EXCEPT !.last_run_status = "error", !.last_error = "boom"]
         ELSE session

StoreIdle ==
    [ pc |-> "idle", op |-> None, path |-> Missing, tmp |-> Missing, prev |-> Missing,
      session |-> Missing, payload |-> Missing, crashed_at |-> None ]

\* Variant of save() that opens the session file itself for writing.
OpenPathForWrite(st) == [st EXCEPT !.path = Truncated]

\* `tmp_path.open("w")` (line 79): the temporary file exists and is empty.
OpenForWrite(st) == [st EXCEPT !.tmp = Truncated]

\* save() up to the opening of the temporary file (lines 73-79).
BeginSave(st, session, op) ==
    [OpenForWrite(st) EXCEPT !.pc = "tmp_open", !.op = op, !.prev = st.path,
                             !.session = session, !.payload = ToDict(session)]

\* load() (lines 55-70).
StoreLoad ==
    /\ store.pc = "idle"
    /\ store' = IF LoadRaises(store.path)
                THEN [store EXCEPT !.pc = "load_raised", !.op = "load"]
                ELSE [store EXCEPT !.pc = "loaded", !.op = "load",
                                   !.session = Load(StoreKey, store.path)]
    /\ UNCHANGED <<disk, running, req, plan, lk, stage, hist, route, single, executor, multi, review, poll>>

\* save(session) of the session load() returned, as it is or after a change.
StoreSaveBegins(change) ==
    /\ store.pc = "loaded"
    /\ store' = BeginSave(store, Change(store.session, change),
                          IF change = "none" THEN "roundtrip" ELSE "update")
    /\ UNCHANGED <<disk, running, req, plan, lk, stage, hist, route, single, executor, multi, review, poll>>

\* reset() (lines 91-94): save() of a new session.
StoreResetBegins ==
    /\ store.pc = "idle"
    /\ store' = BeginSave(store, NewSession(StoreKey), "reset")
    /\ UNCHANGED <<disk, running, req, plan, lk, stage, hist, route, single, executor, multi, review, poll>>

\* json.dump and the close of the temporary file (lines 79-80).
StoreWriteTmp ==
    /\ store.pc = "tmp_open"
    /\ store' = [store EXCEPT !.pc = "tmp_written", !.tmp = store.payload]
    /\ UNCHANGED <<disk, running, req, plan, lk, stage, hist, route, single, executor, multi, review, poll>>

\* os.replace(tmp_path, path) (line 85).
StoreReplace ==
    /\ store.pc = "tmp_written"
    /\ store' = [store EXCEPT !.pc = "saved", !.path = store.tmp, !.tmp = Missing]
    /\ UNCHANGED <<disk, running, req, plan, lk, stage, hist, route, single, executor, multi, review, poll>>

\* The process dies during save() or right after it; the files stay.
StoreCrash ==
    /\ store.pc \in {"tmp_open", "tmp_written", "saved"}
    /\ store' = [store EXCEPT !.pc = "crashed", !.crashed_at = store.pc, !.session = Missing]
    /\ UNCHANGED <<disk, running, req, plan, lk, stage, hist, route, single, executor, multi, review, poll>>

\* The next process loads the key.
StoreLoadAfterCrash ==
    /\ store.pc = "crashed"
    /\ store' = IF LoadRaises(store.path)
                THEN [store EXCEPT !.pc = "reload_raised"]
                ELSE [store EXCEPT !.pc = "reloaded", !.session = Load(StoreKey, store.path)]
    /\ UNCHANGED <<disk, running, req, plan, lk, stage, hist, route, single, executor, multi, review, poll>>

\* --------------------------------------------------- the asyncio locks
\* SessionManager.lock (one asyncio.Lock per key, created on first use) and
\* BotOrchestrator._running_tasks_lock, with the orchestrator's operations as
\* the sequences of `async with` blocks they go through.  Every `await` is
\* taken as a point where the event loop may run another task, so a block may
\* be interleaved with other tasks while its lock is held.
MaxTasks == 2
Tasks == 1..MaxTasks
NoWaiter == 0

\* Variant with one lock for all keys.
LockOfAnyKey(key) == "all"

\* `key = f"{chat_id}:{user_id}"; self._locks.setdefault(key, asyncio.Lock())`
LockOf(key) == key

RegistryLock == "registry"
Locks == {LockOf(s) : s \in Sessions} \cup {RegistryLock}

OtherKey(key) == CHOOSE s \in Sessions : s # key

Acquire(l) == [do |-> "acquire", lock |-> l]
Release(l) == [do |-> "release", lock |-> l]
Await == [do |-> "await", lock |-> None]

Ops == {"command", "cancel", "workflow"}

\* Variant in which a command reads a second session inside its block.
ProgramReadingOtherKey(op, key) ==
    <<Acquire(LockOf(key)), Acquire(LockOf(OtherKey(key))),
      Release(LockOf(OtherKey(key))), Release(LockOf(key))>>

\* The lock blocks of an operation on a key, in program order: a command
\* (lines 121-196), /cancel with its registry lookup (199-207, 328-334), a
\* workflow message (231-246, 256, 259, 260-271, 296).
Program(op, key) ==
    IF op = "command" THEN <<Acquire(LockOf(key)), Release(LockOf(key))>>
    ELSE IF op = "cancel"
    THEN <<Acquire(LockOf(key)), Release(LockOf(key)),
           Acquire(RegistryLock), Release(RegistryLock)>>
    ELSE <<Acquire(LockOf(key)), Release(LockOf(key)),
           Acquire(RegistryLock), Release(RegistryLock),
           Await,
           Acquire(LockOf(key)), Release(LockOf(key)),
           Acquire(RegistryLock), Release(RegistryLock)>>

IdleTask == [op |-> None, key |-> None, program |-> << >>, pc |-> 0, waiting |-> FALSE,
             holds |-> {}]

LkIdle ==
    [ locked  |-> [l \in Locks \cup {"all"} |-> FALSE],
      waiters |-> [l \in Locks \cup {"all"} |-> << >>],
      woken   |-> [l \in Locks \cup {"all"} |-> NoWaiter],
      task    |-> [t \in Tasks |-> IdleTask] ]

\* The step task t is at, if it is inside its program.
AtStep(t) == lk.task[t].pc \in 1..Len(lk.task[t].program)
Step(t) == lk.task[t].program[lk.task[t].pc]

RemoveWaiter(q, t) == SelectSeq(q, LAMBDA w : w # t)

\* handle_message is entered for an operation on a key.
LockEnter(t, op, key) ==
    /\ lk.task[t].pc = 0
    /\ \A u \in Tasks : u < t => lk.task[u].pc # 0
    /\ lk' = [lk EXCEPT !.task[t] = [IdleTask EXCEPT !.op = op, !.key = key,
                                                      !.program = Program(op, key),
                                                      !.pc = 1]]
    /\ UNCHANGED <<disk, running, req, plan, store, stage, hist, route, single, executor, multi, review, poll>>

\* Lock.acquire: taken at once when the lock is free and nobody waits,
\* otherwise the task joins the queue and suspends.
LockAcquire(t) ==
    /\ AtStep(t) /\ Step(t).do = "acquire" /\ ~lk.task[t].waiting
    /\ LET l == Step(t).lock
       IN IF ~lk.locked[l] /\ lk.waiters[l] = << >>
          THEN lk' = [lk EXCEPT !.locked[l] = TRUE,
                                !.task[t].holds = @ \cup {l},
                                !.task[t].pc = @ + 1]
          ELSE lk' = [lk EXCEPT !.waiters[l] = Append(@, t),
                                !.task[t].waiting = TRUE]
    /\ UNCHANGED <<disk, running, req, plan, store, stage, hist, route, single, executor, multi, review, poll>>

\* The waiter whose future release() resolved runs on: it leaves the queue
\* and takes the lock.
LockResume(t) ==
    /\ AtStep(t) /\ Step(t).do = "acquire" /\ lk.task[t].waiting
    /\ LET l == Step(t).lock
       IN /\ lk.woken[l] = t
          /\ lk' = [lk EXCEPT !.waiters[l] = RemoveWaiter(@, t),
                              !.woken[l] = NoWaiter,
                              !.locked[l] = TRUE,
                              !.task[t].waiting = FALSE,
                              !.task[t].holds = @ \cup {l},
                              !.task[t].pc = @ + 1]
    /\ UNCHANGED <<disk, running, req, plan, store, stage, hist, route, single, executor, multi, review, poll>>

\* Lock.release at the end of the block: the lock is free and the first
\* waiter's future is resolved.
LockRelease(t) ==
    /\ AtStep(t) /\ Step(t).do = "release"
    /\ LET l == Step(t).lock
       IN lk' = [lk EXCEPT !.locked[l] = FALSE,
                           !.woken[l] = IF lk.waiters[l] # << >> THEN Head(lk.waiters[l])
                                        ELSE NoWaiter,
                           !.task[t].holds = @ \ {l},
                           !.task[t].pc = @ + 1]
    /\ UNCHANGED <<disk, running, req, plan, store, stage, hist, route, single, executor, multi, review, poll>>

\* workflow.run answers.
LockAwait(t) ==
    /\ AtStep(t) /\ Step(t).do = "await"
    /\ lk' = [lk EXCEPT !.task[t].pc = @ + 1]
    /\ UNCHANGED <<disk, running, req, plan, store, stage, hist, route, single, executor, multi, review, poll>>

TaskStep(t) == LockAcquire(t) \/ LockResume(t) \/ LockRelease(t) \/ LockAwait(t)

\* ------------------------------------------------- core/command_router.py
\* A text is its whitespace-delimited tokens and whether whitespace surrounds
\* them.  A token is a word, with or without a leading "/", in lower case or
\* not, and with or without a trailing "@mybot".
\* The reserved commands (lines 18-47).
Reserved == {"start", "mode", "new", "status", "profile", "cancel"}

\* The tokens of the texts routed: every reserved command and one other slash
\* command, in every spelling, and two plain words.
Tokens ==
    [slash : {TRUE}, word : Reserved \cup {"edit"}, upper : BOOLEAN, mention : BOOLEAN]
    \cup [slash : {FALSE}, word : {"plan", "mode"}, upper : BOOLEAN, mention : {FALSE}]

EmptyText == [lead |-> FALSE, trail |-> FALSE, tokens |-> <<>>]

\* str.strip()
Strip(text) == [text EXCEPT !.lead = FALSE, !.trail = FALSE]

\* str.lower() of a token
Lower(token) == [token EXCEPT !.upper = FALSE]

\* token.split("@", 1)[0]
BeforeAt(token) == [token EXCEPT !.mention = FALSE]

NoRoute == [kind |-> None, text |-> EmptyText, command |-> None, args |-> <<>>]

\* Variant that passes every token after the command as an argument.
ArgsAllTokens(command, parts) ==
    IF command \in {"mode", "profile"}
    THEN [i \in 1..(Len(parts) - 1) |-> <<parts[i + 1]>>]
    ELSE <<>>

\* The args of a reserved command (lines 27-43): /mode and /profile carry one
\* argument, the second token or the empty string; /mode lower-cases it.  The
\* empty string is the empty sequence here.
Args(command, parts) ==
    IF command = "mode"
    THEN << IF Len(parts) > 1 THEN <<Lower(parts[2])>> ELSE <<>> >>
    ELSE IF command = "profile"
    THEN << IF Len(parts) > 1 THEN <<parts[2]>> ELSE <<>> >>
    ELSE <<>>

\* Variant that forwards only the command token of a non-reserved command.
PassThroughFirstToken(raw) == [raw EXCEPT !.tokens = <<raw.tokens[1]>>]

\* The text a non-reserved slash command carries (line 49).
PassThrough(raw) == raw

\* CommandRouter.route (lines 9-51).
Route(text) ==
    LET raw == Strip(text)
    IN IF raw.tokens = <<>>
       THEN [NoRoute EXCEPT !.kind = "text"]
       ELSE IF raw.tokens[1].slash
       THEN LET parts == raw.tokens
                command == BeforeAt(Lower(parts[1]))
            IN IF command.word \in Reserved
               THEN [kind |-> "bot_command", text |-> raw, command |-> command.word,
                     args |-> Args(command.word, parts)]
               ELSE [NoRoute EXCEPT !.kind = "codex_slash", !.text = PassThrough(raw)]
       ELSE [NoRoute EXCEPT !.kind = "text", !.text = raw]

RouteIdle == [pc |-> "idle", input |-> EmptyText, result |-> NoRoute,
              handler |-> None, input_text |-> EmptyText]

\* The user types one more token of the text.
RouteType(token) ==
    /\ route.pc = "idle"
    /\ Len(route.input.tokens) < MaxTokens
    /\ route' = [route EXCEPT !.input.tokens = Append(@, token)]
    /\ UNCHANGED <<disk, running, req, plan, store, lk, stage, hist, single, executor, multi, review, poll>>

\* The text is sent, with or without whitespace around it: handle_message
\* routes it and hands it to _handle_bot_command or, with route.text, to the
\* workflow (orchestrator.py lines 36, 45-62, 258).
RouteMessage(lead, trail) ==
    /\ route.pc = "idle"
    /\ LET text == [route.input EXCEPT !.lead = lead, !.trail = trail]
           result == Route(text)
       IN route' = [pc |-> "routed", input |-> text, result |-> result,
                    handler |-> IF result.kind = "bot_command"
                                THEN "bot_command" ELSE "workflow",
                    input_text |-> IF result.kind = "bot_command"
                                   THEN EmptyText ELSE result.text]
    /\ UNCHANGED <<disk, running, req, plan, store, lk, stage, hist, single, executor, multi, review, poll>>

\* --------------------------- workflows/plan_agent_workflow.py, stage agents
\* A text is the set of the substrings _looks_like_prompt_echo searches for
\* that its lower-cased form contains.
Phrases ==
    { "you are plan developer agent.", "do not repeat system prompts",
      "you are plan reviewer agent.", "reply in strict json with keys result and feedback.",
      "you are plan planner agent.", "return strict json only.",
      "you are mode selector agent.", "return strict json only",
      "user request:", "review round:", "reviewer feedback to apply:",
      "return strict json object with keys", "mode", "reason" }

\* A text that contains a phrase contains the phrases inside that phrase.
Close(text) ==
    text \cup (IF "return strict json only." \in text THEN {"return strict json only"} ELSE {})
         \cup (IF "you are mode selector agent." \in text THEN {"mode"} ELSE {})

\* _looks_like_prompt_echo (lines 74-103).
LooksLikePromptEcho(text) ==
    \/ {"you are plan developer agent.", "do not repeat system prompts"} \subseteq text
    \/ {"you are plan reviewer agent.",
        "reply in strict json with keys result and feedback."} \subseteq text
    \/ {"you are plan planner agent.", "return strict json only."} \subseteq text
    \/ {"you are mode selector agent.", "return strict json only"} \subseteq text
    \/ {"user request:", "review round:", "reviewer feedback to apply:"} \subseteq text
    \/ {"return strict json object with keys", "mode", "reason"} \subseteq text

Agents == {"selector", "planner", "developer", "reviewer"}

\* The default system instructions of each agent (lines 38-57).
SystemInstructions(agent) ==
    CASE agent = "selector" -> {"you are mode selector agent.", "return strict json only", "mode", "reason"}
      [] agent = "planner" -> {}
      [] agent = "developer" -> {"you are plan developer agent.", "do not repeat system prompts"}
      [] agent = "reviewer" -> {"you are plan reviewer agent.",
                                "reply in strict json with keys result and feedback."}

\* The prompt each agent builds around a user request that contains none of
\* the phrases (lines 116-137, 188-197, 237-242, 283-288).
Prompt(agent) ==
    CASE agent = "selector" -> {"user request:", "mode", "reason"}
      [] agent = "planner" -> {"user request:"}
      [] agent = "developer" -> {"user request:", "review round:", "reviewer feedback to apply:"}
      [] agent = "reviewer" -> {"user request:", "review round:"}

\* What an executor that echoes its input can answer to an agent.
Echoes(agent) ==
    { Prompt(agent), SystemInstructions(agent), SystemInstructions(agent) \cup Prompt(agent) }

\* The answers of the executor: the echoes and any text with few phrases.
Responses(agent) ==
    Echoes(agent) \cup { Close(text) : text \in { s \in SUBSET Phrases : Cardinality(s) <= MaxPhrases } }

StageIdle == [pc |-> "idle", agent |-> None, output |-> {}]

\* select_mode, plan, develop or review is called and awaits executor.run.
StageCall(agent) ==
    /\ stage.pc = "idle"
    /\ stage' = [stage EXCEPT !.pc = "awaiting", !.agent = agent]
    /\ UNCHANGED <<disk, running, req, plan, store, lk, hist, route, single, executor, multi, review, poll>>

\* executor.run returns: `if _looks_like_prompt_echo(output): raise
\* CodexExecutionError`, else the agent returns (lines 158-162, 217-221,
\* 264-268, 309-313).
StageAnswer(response) ==
    /\ stage.pc = "awaiting"
    /\ response \in Responses(stage.agent)
    /\ stage' = [stage EXCEPT !.output = response,
                              !.pc = IF LooksLikePromptEcho(response)
                                     THEN "raised" ELSE "returned"]
    /\ UNCHANGED <<disk, running, req, plan, store, lk, hist, route, single, executor, multi, review, poll>>

\* ------------------------- workflows/plan_agent_workflow.py, the history
\* _MAX_HISTORY_ITEMS (line 33).
MaxHistoryItems == 20

\* The last n elements of a sequence: `cleaned[-n:]`.
LastItems(seq, n) ==
    IF Len(seq) > n THEN SubSeq(seq, Len(seq) - n + 1, Len(seq)) ELSE seq

\* `if len(cleaned) > _MAX_HISTORY_ITEMS: cleaned = cleaned[-_MAX_HISTORY_ITEMS:]`
\* (lines 693-694).
CapHistory(cleaned) == LastItems(cleaned, MaxHistoryItems)

\* The turns _sanitize_history keeps (lines 681-692): a turn is dropped when
\* its content is recognized as a prompt echo.
RECURSIVE Cleaned(_)
Cleaned(history) ==
    IF history = <<>> THEN <<>>
    ELSE LET item == Head(history)
         IN IF LooksLikePromptEcho(item.content)
            THEN Cleaned(Tail(history))
            ELSE <<item>> \o Cleaned(Tail(history))

\* PlanWorkflow._sanitize_history (lines 678-695).
SanitizeHistory(history) == CapHistory(Cleaned(history))

\* next_history (lines 566-570): the run's history, the user's text as typed
\* and the output.  The turns are numbered by the returning run that added them.
NextHistory(history, input_text, base_output, run) ==
    history \o << [role |-> "user", content |-> input_text, run |-> run],
                  [role |-> "assistant", content |-> base_output, run |-> run] >>

\* The texts a user sends: one with none of the phrases, and one that reads
\* like the Developer's prompt.
InputTexts == { {}, Prompt("developer") }

\* reset_in_run and reset_turns tell whether /new was handled during the run
\* in flight or just finished, and the history it discarded.
HistIdle ==
    [pc |-> "idle", persisted |-> <<>>, history |-> <<>>, input_text |-> {}, runs |-> 0,
     reset_in_run |-> FALSE, reset_turns |-> <<>>]

\* A text message is handled: the session is loaded and workflow.run sets
\* session.history to the sanitized history (orchestrator.py lines 231-258,
\* plan_agent_workflow.py line 359).
HistRunStarts(input_text) ==
    /\ hist.pc = "idle"
    /\ hist.runs < MaxRuns
    /\ hist' = [hist EXCEPT !.pc = "running",
                            !.history = SanitizeHistory(hist.persisted),
                            !.input_text = input_text]
    /\ UNCHANGED <<disk, running, req, plan, store, lk, stage, route, single, executor, multi, review, poll>>

\* run returns; the orchestrator stores next_history in the session and saves
\* it (orchestrator.py lines 260-271).  The output has passed the echo check
\* of its agent.
HistRunReturns(base_output) ==
    /\ hist.pc = "running"
    /\ ~LooksLikePromptEcho(base_output)
    /\ hist' = [HistIdle EXCEPT !.runs = hist.runs + 1,
                                !.persisted = NextHistory(hist.history, hist.input_text,
                                                          base_output, hist.runs + 1),
                                !.reset_in_run = hist.reset_in_run,
                                !.reset_turns = hist.reset_turns]
    /\ UNCHANGED <<disk, running, req, plan, store, lk, stage, route, single, executor, multi, review, poll>>

\* run raises: the stored history stays (orchestrator.py lines 286-293).
HistRunRaises ==
    /\ hist.pc = "running"
    /\ hist' = [HistIdle EXCEPT !.runs = hist.runs, !.persisted = hist.persisted]
    /\ UNCHANGED <<disk, running, req, plan, store, lk, stage, route, single, executor, multi, review, poll>>

\* /new is handled (orchestrator.py lines 145-150): reset() saves a new
\* session, whose history is empty, whether or not a run is in flight.
HistNew ==
    /\ hist.runs < MaxRuns
    /\ hist' = [hist EXCEPT !.persisted = <<>>,
                            !.reset_in_run = (hist.pc = "running"),
                            !.reset_turns = IF hist.pc = "running" THEN hist.persisted ELSE <<>>]
    /\ UNCHANGED <<disk, running, req, plan, store, lk, stage, route, single, executor, multi, review, poll>>

\* ----------------------------------- workflows/single_agent_workflow.py
\* What the Developer returns and what the Reviewer says, as far as run
\* compares them: two outputs and the empty one, two feedbacks and the empty one.
CandidateOutputs == {"", "output a", "output b"}
Feedbacks == {"", "feedback a", "feedback b"}

\* The locals of SingleAgentWorkflow.run (lines 246-265) and the calls made.
SingleLocals(max_review_rounds, review_only_with_artifacts) ==
    [ wpc |-> "start",
      max_review_rounds |-> max_review_rounds,
      review_only_with_artifacts |-> review_only_with_artifacts,
      round_index |-> 0,
      candidate_output |-> "",
      last_decision |-> "approved",
      review_result |-> "max_rounds_reached",
      review_round |-> max_review_rounds,
      previous_feedback |-> None,
      previous_candidate_output |-> None,
      planner_calls |-> 0,
      developer_calls |-> 0,
      reviewer_calls |-> 0 ]

\* No run of the single workflow.
SingleIdle == [SingleLocals(0, FALSE) EXCEPT !.wpc = "idle"]

\* The end of run (lines 401-431): an approved last decision wins.
SingleFinalize(w) ==
    [w EXCEPT !.wpc = "returned",
              !.review_result = IF w.last_decision = "approved" THEN "approved" ELSE @]

\* The break of the loop with a result for the current round.
SingleBreak(w, review_result) ==
    SingleFinalize([w EXCEPT !.review_result = review_result, !.review_round = w.round_index])

\* The top of a loop iteration up to the Developer call (lines 267-286), or
\* the else clause of the loop (lines 388-399).
SingleBeginRound(w, round_index) ==
    IF round_index <= w.max_review_rounds
    THEN [w EXCEPT !.wpc = "developer", !.round_index = round_index,
                   !.developer_calls = @ + 1]
    ELSE SingleFinalize([w EXCEPT !.review_result = "max_rounds_reached",
                                  !.review_round = w.max_review_rounds])

\* run is entered and the Planner is called (lines 247-248).
SingleStart ==
    /\ single.wpc = "start"
    /\ single' = [single EXCEPT !.wpc = "planner", !.planner_calls = @ + 1]
    /\ UNCHANGED <<disk, running, req, plan, store, lk, stage, hist, route, executor, multi, review, poll>>

\* The Planner answers; the loop is entered (lines 248-286).
SinglePlannerReturns ==
    /\ single.wpc = "planner"
    /\ single' = SingleBeginRound(single, 1)
    /\ UNCHANGED <<disk, running, req, plan, store, lk, stage, hist, route, executor, multi, review, poll>>

\* The Developer answers (lines 281-335): without artifacts the review is
\* skipped and the round approved, else the Reviewer is called.
SingleDeveloperReturns(candidate_output, changed) ==
    /\ single.wpc = "developer"
    /\ LET w == [single EXCEPT !.candidate_output = candidate_output]
       IN IF w.review_only_with_artifacts /\ ~changed
          THEN single' = SingleBreak([w EXCEPT !.last_decision = "approved"], "approved")
          ELSE single' = [w EXCEPT !.wpc = "reviewer", !.reviewer_calls = @ + 1]
    /\ UNCHANGED <<disk, running, req, plan, store, lk, stage, hist, route, executor, multi, review, poll>>

\* The Reviewer answers (lines 329-386).
SingleReviewerReturns(decision, feedback) ==
    /\ single.wpc = "reviewer"
    /\ LET w == [single EXCEPT !.last_decision = decision]
           current_candidate == w.candidate_output
       IN IF decision = "approved"
          THEN single' = SingleBreak(w, "approved")
          ELSE IF w.previous_candidate_output \notin {None, ""}
                  /\ current_candidate = w.previous_candidate_output
          THEN single' = SingleBreak(w, "max_rounds_reached")
          ELSE IF w.previous_feedback \notin {None, ""} /\ feedback # ""
                  /\ feedback = w.previous_feedback
          THEN single' = SingleBreak(w, "max_rounds_reached")
          ELSE single' = SingleBeginRound(
                             [w EXCEPT !.previous_feedback = feedback,
                                       !.previous_candidate_output = current_candidate],
                             w.round_index + 1)
    /\ UNCHANGED <<disk, running, req, plan, store, lk, stage, hist, route, executor, multi, review, poll>>

\* The awaited agent raises and the exception leaves run.
SingleStageRaises ==
    /\ single.wpc \in {"planner", "developer", "reviewer"}
    /\ single' = [single EXCEPT !.wpc = "raised"]
    /\ UNCHANGED <<disk, running, req, plan, store, lk, stage, hist, route, executor, multi, review, poll>>

\* ------------------------------------------ integrations/codex_executor.py
\* A CodexMcpExecutor as constructed (lines 126-129) and no task in run().
\* session, session_cm, stdio_cm: the field is not None.  cancel_requested:
\* task.cancel() has been called and its CancelledError not yet raised.
\* runs and cancels count the calls of run() and of task.cancel().
ExecutorIdle ==
    [ pc |-> "idle", started |-> FALSE, session |-> FALSE, session_cm |-> FALSE,
      stdio_cm |-> FALSE, status |-> None, cancel_requested |-> FALSE,
      uncancel_count |-> 0, close_error |-> FALSE, cancelled_in_call |-> FALSE,
      outcome |-> None, cancels |-> 0, runs |-> 0 ]

\* The task is suspended in an await.
ExecutorAwaiting == executor.pc \in {"call_tool", "close_session", "close_stdio"}

\* _ensure_started when it succeeds (lines 265-336).
EnsureStarted(e) ==
    IF e.started THEN e
    ELSE [e EXCEPT !.started = TRUE, !.session = TRUE, !.session_cm = TRUE,
                   !.stdio_cm = TRUE, !.status = "running"]

\* run is called: the server is started if need be and call_tool is awaited
\* (lines 131-166).
ExecutorRun ==
    /\ executor.pc \in {"idle", "ended"}
    /\ executor.runs < MaxCalls
    /\ executor' = [EnsureStarted(executor) EXCEPT !.pc = "call_tool",
                                                  !.runs = @ + 1,
                                                  !.outcome = None,
                                                  !.close_error = FALSE,
                                                  !.cancelled_in_call = FALSE]
    /\ UNCHANGED <<disk, running, req, plan, store, lk, stage, hist, route, single, multi, review, poll>>

\* _ensure_started fails: CodexExecutionError, nothing is kept (lines 316-329).
ExecutorStartFails ==
    /\ executor.pc \in {"idle", "ended"}
    /\ executor.runs < MaxCalls
    /\ ~executor.started
    /\ executor' = [executor EXCEPT !.pc = "ended", !.outcome = "CodexExecutionError",
                                    !.runs = @ + 1,
                                    !.status = "start failed",
                                    !.cancelled_in_call = FALSE]
    /\ UNCHANGED <<disk, running, req, plan, store, lk, stage, hist, route, single, multi, review, poll>>

\* call_tool returns: the output, or CodexExecutionError for an error result
\* or an empty output (lines 176-184).
ExecutorCallReturns(output) ==
    /\ executor.pc = "call_tool"
    /\ ~executor.cancel_requested
    /\ executor' = [executor EXCEPT !.pc = "ended",
                                    !.outcome = IF output = "text" THEN "returned"
                                                ELSE "CodexExecutionError"]
    /\ UNCHANGED <<disk, running, req, plan, store, lk, stage, hist, route, single, multi, review, poll>>

\* call_tool raises an Exception: _reset_after_transport_error closes and
\* forgets the session, and CodexExecutionError is raised (lines 172-174,
\* 209-217).
ExecutorCallFails ==
    /\ executor.pc = "call_tool"
    /\ ~executor.cancel_requested
    /\ executor' = [executor EXCEPT !.pc = "ended", !.outcome = "CodexExecutionError",
                                    !.started = FALSE, !.session = FALSE,
                                    !.session_cm = FALSE, !.stdio_cm = FALSE,
                                    !.status = "stopped: transport error"]
    /\ UNCHANGED <<disk, running, req, plan, store, lk, stage, hist, route, single, multi, review, poll>>

\* Someone calls task.cancel() while the task is suspended (orchestrator.py
\* line 218, telegram_polling_runner.py line 631).
ExecutorCancel ==
    /\ ExecutorAwaiting
    /\ ~executor.cancel_requested
    /\ executor.cancels < MaxCancels
    /\ executor' = [executor EXCEPT !.cancel_requested = TRUE, !.cancels = @ + 1]
    /\ UNCHANGED <<disk, running, req, plan, store, lk, stage, hist, route, single, multi, review, poll>>

\* The end of _cleanup_after_cancel and of the CancelledError clause of run
\* once close() has returned or raised an Exception (lines 199-207, 170-171).
AfterClose(e) ==
    LET e1 == IF e.close_error THEN [e EXCEPT !.session = FALSE, !.started = FALSE] ELSE e
    IN [e1 EXCEPT !.pc = "ended", !.outcome = "CancelledError",
                  !.cancel_requested = e.uncancel_count > 0, !.uncancel_count = 0,
                  !.status = "stopped: request cancelled"]

\* The end of close() (lines 256-263).
EndOfClose(e) == AfterClose([e EXCEPT !.stdio_cm = FALSE, !.started = FALSE])

\* close() after the session context manager has exited, failed or timed
\* out (lines 237-246).
CloseSession(e, failed) ==
    LET e1 == [e EXCEPT !.session = FALSE, !.session_cm = FALSE, !.close_error = failed]
    IN IF e1.stdio_cm THEN [e1 EXCEPT !.pc = "close_stdio"] ELSE EndOfClose(e1)

\* CancelledError is raised in call_tool: _cleanup_after_cancel takes back
\* the cancellation and awaits close(), which awaits the exit of the session
\* context manager (lines 167-169, 191-200, 219-231).
ExecutorCancelledInCall ==
    /\ executor.pc = "call_tool"
    /\ executor.cancel_requested
    /\ LET e == [executor EXCEPT !.cancel_requested = FALSE, !.uncancel_count = 1,
                                 !.cancelled_in_call = TRUE]
       IN executor' = IF ~e.started THEN AfterClose(e)
                      ELSE IF e.session_cm THEN [e EXCEPT !.pc = "close_session"]
                      ELSE CloseSession(e, FALSE)
    /\ UNCHANGED <<disk, running, req, plan, store, lk, stage, hist, route, single, multi, review, poll>>

\* The session context manager exits, raises an Exception or times out.
ExecutorSessionClosed(failed) ==
    /\ executor.pc = "close_session"
    /\ ~executor.cancel_requested
    /\ executor' = CloseSession(executor, failed)
    /\ UNCHANGED <<disk, running, req, plan, store, lk, stage, hist, route, single, multi, review, poll>>

\* The stdio context manager exits, raises an Exception or times out (lines
\* 248-263); an error of either exit is raised by close() and caught by
\* _cleanup_after_cancel (lines 201-203).
ExecutorStdioClosed(failed) ==
    /\ executor.pc = "close_stdio"
    /\ ~executor.cancel_requested
    /\ executor' = EndOfClose([executor EXCEPT !.close_error = @ \/ failed])
    /\ UNCHANGED <<disk, running, req, plan, store, lk, stage, hist, route, single, multi, review, poll>>

\* A further CancelledError is raised in the await inside close(): no clause
\* of close() or _cleanup_after_cancel catches it, the finally clause cancels
\* the task again, and the error leaves run (lines 204-207).
ExecutorCancelledInClose ==
    /\ executor.pc \in {"close_session", "close_stdio"}
    /\ executor.cancel_requested
    /\ executor' = [executor EXCEPT !.pc = "ended", !.outcome = "CancelledError",
                                    !.cancel_requested = TRUE, !.uncancel_count = 0]
    /\ UNCHANGED <<disk, running, req, plan, store, lk, stage, hist, route, single, multi, review, poll>>

\* The caller's next await raises the CancelledError of a cancellation that
\* _cleanup_after_cancel requested again.
ExecutorCallerCancelled ==
    /\ executor.pc = "ended"
    /\ executor.cancel_requested
    /\ executor' = [executor EXCEPT !.cancel_requested = FALSE]
    /\ UNCHANGED <<disk, running, req, plan, store, lk, stage, hist, route, single, multi, review, poll>>

\* ------------------------------------- workflows/multi_agent_workflow.py
\* _ROLE_ORDER (line 14).
RoleOrder == <<"designer", "frontend_developer", "backend_developer", "tester">>

Roles == {RoleOrder[i] : i \in 1..Len(RoleOrder)}

\* The files a plan can require and an agent can create or remove.
Paths == {"design/design_spec.md", "app/index.html"}

\* The required_outputs a plan declares for a role.
RequiredOutputs == {{}, Paths}

\* The locals of MultiAgentWorkflow.run and _execute_role, the files of the
\* workspace, and the executor calls made: for each the role, the attempt,
\* the snapshot taken before it and the outputs its prompt lists as missing.
MultiLocals(max_role_retries) ==
    [ wpc |-> "start",
      max_role_retries |-> max_role_retries,
      enabled |-> [role \in Roles |-> FALSE],
      required_outputs |-> [role \in Roles |-> {}],
      role_index |-> 0,
      attempt |-> 0,
      missing_outputs |-> {},
      workspace |-> {},
      stage_results |-> << >>,
      calls |-> << >> ]

\* No run of the multi workflow.
MultiIdle == [MultiLocals(0) EXCEPT !.wpc = "idle"]

\* _find_missing_outputs (lines 456-471): the required paths that do not exist.
FindMissingOutputsAll(required_outputs, workspace) == required_outputs
FindMissingOutputs(required_outputs, workspace) == required_outputs \ workspace

\* The "still missing" lines of _build_role_prompt (lines 316-324).
RolePromptAddendum(attempt, missing_outputs) ==
    IF attempt > 1 /\ missing_outputs # {} THEN missing_outputs ELSE {}

\* A call of _run_agent (lines 242-257) for a role with a prompt.
RunAgent(w, role, attempt, missing_outputs) ==
    [w EXCEPT !.calls = Append(@, [role |-> role, attempt |-> attempt,
                                   before |-> w.workspace,
                                   addendum |-> RolePromptAddendum(attempt, missing_outputs)])]

\* The result run records for a role it skips (lines 117-125).
SkippedResult(role) == [role |-> role, enabled |-> FALSE, missing_outputs |-> {}]

\* The loop of run from the role at index on (lines 114-145): disabled roles
\* are recorded and skipped, the first enabled one is entered with attempt 1
\* (lines 191-206), and after the last role _finalize calls the manager.
RECURSIVE RunRolesFrom(_, _)
RunRolesFrom(w, index) ==
    IF index > Len(RoleOrder)
    THEN RunAgent([w EXCEPT !.wpc = "finalize", !.role_index = index], "manager", 0, {})
    ELSE IF ~w.enabled[RoleOrder[index]]
    THEN RunRolesFrom([w EXCEPT !.stage_results = Append(@, SkippedResult(RoleOrder[index]))],
                      index + 1)
    ELSE RunAgent([w EXCEPT !.wpc = "role", !.role_index = index, !.attempt = 1,
                            !.missing_outputs = {}],
                  RoleOrder[index], 1, {})

\* run is entered and _create_plan calls the manager (lines 109-175).
MultiStart ==
    /\ multi.wpc = "start"
    /\ multi' = RunAgent([multi EXCEPT !.wpc = "planning"], "manager", 0, {})
    /\ UNCHANGED <<disk, running, req, plan, store, lk, stage, hist, route, single, executor, review, poll>>

\* The manager answers with a plan, parsed or the default one (lines
\* 176-179, 350-406), and the loop over the roles begins.
MultiPlanReturns(enabled, required_outputs) ==
    /\ multi.wpc = "planning"
    /\ multi' = RunRolesFrom([multi EXCEPT !.enabled = enabled,
                                           !.required_outputs = required_outputs], 1)
    /\ UNCHANGED <<disk, running, req, plan, store, lk, stage, hist, route, single, executor, review, poll>>

\* The agent of a role answers, having created some files in the workspace
\* (lines 206-223): the role is retried while outputs are missing and
\* attempts remain, else its result is recorded and the loop goes on.
MultiRoleReturns(created) ==
    /\ multi.wpc = "role"
    /\ LET role == RoleOrder[multi.role_index]
           workspace == multi.workspace \cup created
           missing_outputs == FindMissingOutputs(multi.required_outputs[role], workspace)
           w == [multi EXCEPT !.workspace = workspace, !.missing_outputs = missing_outputs]
       IN IF missing_outputs # {} /\ multi.attempt + 1 < multi.max_role_retries + 2
          THEN multi' = RunAgent([w EXCEPT !.attempt = @ + 1], role,
                                 multi.attempt + 1, missing_outputs)
          ELSE multi' = RunRolesFrom(
                            [w EXCEPT !.stage_results =
                                          Append(@, [role |-> role, enabled |-> TRUE,
                                                     missing_outputs |-> missing_outputs])],
                            multi.role_index + 1)
    /\ UNCHANGED <<disk, running, req, plan, store, lk, stage, hist, route, single, executor, review, poll>>

\* The manager answers the final call and run returns (lines 139-167).
MultiFinalizeReturns ==
    /\ multi.wpc = "finalize"
    /\ multi' = [multi EXCEPT !.wpc = "returned"]
    /\ UNCHANGED <<disk, running, req, plan, store, lk, stage, hist, route, single, executor, review, poll>>

\* The awaited executor call raises and the exception leaves run.
MultiStageRaises ==
    /\ multi.wpc \in {"planning", "role", "finalize"}
    /\ multi' = [multi EXCEPT !.wpc = "raised"]
    /\ UNCHANGED <<disk, running, req, plan, store, lk, stage, hist, route, single, executor, review, poll>>

\* ----------------- workflows/plan_agent_workflow.py, the Reviewer's answer
\* What json.loads makes of a raw answer: an object, an array, another
\* value, a JSONDecodeError, or an exception of another class (ValueError
\* for a number of more digits than int() converts, RecursionError for
\* nesting deeper than the interpreter's limit).
JsonOutcomes == {"object", "array", "scalar", "JSONDecodeError", "OtherError"}

\* The raw answers of a Reviewer, as far as _parse_review tells them apart:
\* the outcome of json.loads, the "result" and "feedback" members of an
\* object ("absent": no such member; the feedback by its length and whether
\* whitespace surrounds it), and whether the words approved and
\* needs_changes occur in the text.  An object whose result is one of the
\* two words contains that word.
RawReviews ==
    { raw \in [ json : JsonOutcomes,
                result : {"approved", "needs_changes", "rejected", "absent"},
                feedback : [len : {0, 3}, pad : BOOLEAN],
                has_approved : BOOLEAN,
                has_needs_changes : BOOLEAN ] :
        /\ raw.json # "object" => raw.result = "absent" /\ raw.feedback = [len |-> 0, pad |-> FALSE]
        /\ (raw.json = "object" /\ raw.result = "approved") => raw.has_approved
        /\ (raw.json = "object" /\ raw.result = "needs_changes") => raw.has_needs_changes }

NoRaw ==
    [ json |-> "scalar", result |-> "absent", feedback |-> [len |-> 0, pad |-> FALSE],
      has_approved |-> FALSE, has_needs_changes |-> FALSE ]

NoDecision == [outcome |-> None, result |-> None, feedback |-> None]

\* `str(payload.get("result", "needs_changes"))` (line 320).
PayloadResult(raw) == IF raw.result = "absent" THEN "needs_changes" ELSE raw.result

\* LlmReviewerAgent._parse_review (lines 315-335).  Only JSONDecodeError is
\* caught (line 324); the feedback of the decision is the stripped member,
\* the raw text or the fixed notice.
ParseReview(raw) ==
    IF raw.json = "OtherError"
    THEN [outcome |-> "raised", result |-> None, feedback |-> None]
    ELSE IF raw.json = "object" /\ PayloadResult(raw) \in {"approved", "needs_changes"}
    THEN [outcome |-> "returned", result |-> PayloadResult(raw),
          feedback |-> IF raw.feedback.len = 0 THEN "empty" ELSE "stripped member"]
    ELSE IF raw.has_approved /\ ~raw.has_needs_changes
    THEN [outcome |-> "returned", result |-> "approved", feedback |-> "raw"]
    ELSE [outcome |-> "returned", result |-> "approved",
          feedback |-> "reviewer_output_not_json"]

ReviewIdle == [pc |-> "idle", raw |-> NoRaw, decision |-> NoDecision]

\* The executor's answer has passed the echo check of review (lines 299-313).
ReviewAnswered(raw) ==
    /\ review.pc = "idle"
    /\ review' = [review EXCEPT !.pc = "answered", !.raw = raw]
    /\ UNCHANGED <<disk, running, req, plan, store, lk, stage, hist, route, single, executor, multi, poll>>

\* `return self._parse_review(raw)` (line 313).
ReviewParsed ==
    /\ review.pc = "answered"
    /\ review' = [review EXCEPT !.pc = "parsed", !.decision = ParseReview(review.raw)]
    /\ UNCHANGED <<disk, running, req, plan, store, lk, stage, hist, route, single, executor, multi, poll>>

\* ------------------ scripts/telegram_polling_runner.py, the wait after /cancel
\* What handle_message gives back for /cancel: the two replies of the
\* orchestrator, and the text the loop makes of an exception (line 845).
CancelOutputs == {"[Cancel]: requested", "[Cancel]: no running task", "internal error: x"}

\* `output.strip().lower()` (line 848).
NormalizedOutput(output) ==
    CASE output = "[Cancel]: requested" -> "[cancel]: requested"
      [] output = "[Cancel]: no running task" -> "[cancel]: no running task"
      [] OTHER -> output

\* `normalized_output == "no running task to cancel."` (line 852).
DirectCancel(output) == NormalizedOutput(output) = "no running task to cancel."

\* The loop with no active task.  task is active_request_task ("none": None,
\* else the state of the task); cancel_requested tells that the orchestrator
\* called cancel() on it and cancelled_by_wait that a wait did; completed,
\* timed_out and warned describe the last call of
\* _wait_for_request_completion.
PollIdle ==
    [ pc |-> "polling", task |-> "none", cancel_requested |-> FALSE, output |-> None,
      completed |-> None, timed_out |-> FALSE, warned |-> FALSE,
      cancelled_by_wait |-> FALSE, updates |-> 0 ]

TaskDone(task) == task \in {"returned", "failed", "cancelled"}

\* The rest of the /cancel branch after the wait (lines 862-870): the warning,
\* `if active_request_task.done(): active_request_task = None`, the reply.
AfterWait(w, completed) ==
    [w EXCEPT !.pc = "polling",
              !.completed = IF completed THEN "yes" ELSE "no",
              !.warned = ~completed,
              !.task = IF TaskDone(w.task) THEN "none" ELSE @]

\* Variant of the wait without asyncio.shield: the timeout cancels the task.
OnTimeoutUnshielded(w) ==
    AfterWait([w EXCEPT !.timed_out = TRUE, !.cancelled_by_wait = TRUE], FALSE)

\* `await asyncio.wait_for(asyncio.shield(request_task), timeout=timeout_sec)`
\* times out (lines 658-662): the shield is cancelled, the task is not, and
\* the call returns False.
OnTimeout(w) == AfterWait([w EXCEPT !.timed_out = TRUE], FALSE)

\* An update that is not /cancel arrives with no unfinished task:
\* create_task(_process_inbound_request(...)) (lines 872-893).
PollCreateTask ==
    /\ poll.pc = "polling"
    /\ poll.updates < MaxUpdates
    /\ poll.task # "running"
    /\ poll' = [poll EXCEPT !.task = "running", !.cancel_requested = FALSE,
                            !.cancelled_by_wait = FALSE, !.updates = @ + 1]
    /\ UNCHANGED <<disk, running, req, plan, store, lk, stage, hist, route, single, executor, multi, review>>

\* An update that is not /cancel arrives while the task runs and is
\* answered with the busy text (lines 872-879).
PollBusy ==
    /\ poll.pc = "polling"
    /\ poll.updates < MaxUpdates
    /\ poll.task = "running"
    /\ poll' = [poll EXCEPT !.updates = @ + 1]
    /\ UNCHANGED <<disk, running, req, plan, store, lk, stage, hist, route, single, executor, multi, review>>

\* /cancel arrives (lines 837-870).  The orchestrator may have called
\* task.cancel() on the request's task; the loop then waits for the task
\* unless it has none or the task is done.
PollCancel(output, requested) ==
    /\ poll.pc = "polling"
    /\ poll.updates < MaxUpdates
    /\ requested => (poll.task = "running" /\ output = "[Cancel]: requested")
    /\ LET w == [poll EXCEPT !.output = output, !.updates = @ + 1,
                             !.cancel_requested = @ \/ requested,
                             !.completed = None, !.timed_out = FALSE, !.warned = FALSE]
       IN IF w.task = "none"
          THEN poll' = w
          ELSE IF DirectCancel(output)
          THEN IF TaskDone(w.task)
               THEN poll' = [w EXCEPT !.task = "none"]
               ELSE poll' = [w EXCEPT !.pc = "cancelling", !.cancel_requested = TRUE]
          ELSE IF TaskDone(w.task)
          THEN poll' = AfterWait(w, TRUE)
          ELSE poll' = [w EXCEPT !.pc = "waiting"]
    /\ UNCHANGED <<disk, running, req, plan, store, lk, stage, hist, route, single, executor, multi, review>>

\* The request task ends: it returns, raises, or is cancelled if something
\* called cancel() on it.  A wait for it returns True whichever it is (lines 658-667).
PollTaskEnds(how) ==
    /\ poll.task = "running"
    /\ how = "cancelled" => (poll.cancel_requested \/ poll.cancelled_by_wait)
    /\ LET w == [poll EXCEPT !.task = how]
       IN IF poll.pc = "waiting"
          THEN poll' = AfterWait(w, TRUE)
          ELSE IF poll.pc = "cancelling"
          THEN poll' = [w EXCEPT !.pc = "polling", !.task = "none"]
          ELSE poll' = w
    /\ UNCHANGED <<disk, running, req, plan, store, lk, stage, hist, route, single, executor, multi, review>>

\* The timeout of the wait expires with the task still running.
PollWaitTimeout ==
    /\ poll.pc = "waiting"
    /\ poll.task = "running"
    /\ poll' = OnTimeout(poll)
    /\ UNCHANGED <<disk, running, req, plan, store, lk, stage, hist, route, single, executor, multi, review>>

\* The task of the loop is cancelled while it waits: the CancelledError is
\* caught and the wait returns True (lines 663-664).
PollLoopCancelled ==
    /\ poll.pc = "waiting"
    /\ poll' = AfterWait(poll, TRUE)
    /\ UNCHANGED <<disk, running, req, plan, store, lk, stage, hist, route, single, executor, multi, review>>

\* ------------------------------------- workflows/plan_agent_workflow.py
\* PlanWorkflow.run, one step per executor call it awaits.  Texts are tokens:
\* input_text is "request"; a feedback is the round whose review produced it
\* (0: no feedback), its length and whether whitespace surrounds it; an
\* output_text is the sequence of its parts.
InputText == "request"
ExecutionInput == "request+planner_handoff"

\* _MAX_REVIEW_FEEDBACK_CHARS (line 31).
MaxReviewFeedbackChars == 1200

\* The lengths, without surrounding whitespace, of the feedback a Reviewer gives.
FeedbackLens == {MaxReviewFeedbackChars, 2 * MaxReviewFeedbackChars}

\* `review_feedback: str | None = None` (line 417).
NoFeedback == [round |-> 0, len |-> 0, pad |-> FALSE, cut |-> FALSE]

\* Variant of _clip_feedback that only strips.
ClipFeedbackUncut(feedback) == [feedback EXCEPT !.pad = FALSE]

\* PlanWorkflow._clip_feedback (lines 619-623): stripped, and cut to the limit
\* with "..." appended when longer.
ClipFeedback(feedback) ==
    [ round |-> feedback.round,
      len |-> IF feedback.len > MaxReviewFeedbackChars
              THEN MaxReviewFeedbackChars + 3 ELSE feedback.len,
      pad |-> FALSE,
      cut |-> feedback.len > MaxReviewFeedbackChars ]

\* The WorkflowResult single_workflow.run may hand back.
SingleResults ==
    { [output_text |-> <<"single_output">>, review_round |-> 0, review_result |-> "approved"],
      [output_text |-> <<"single_output">>, review_round |-> 1, review_result |-> "needs_changes"] }

NoResult ==
    [ output_text |-> << >>, review_round |-> 0, review_result |-> None,
      selector_decision |-> None, delegated_to |-> None ]

\* The locals of run before the selector is called, for a workflow built with
\* the given max_review_rounds and review_only_with_artifacts.
PlanLocals(max_review_rounds, review_only_with_artifacts) ==
    [ wpc                        |-> "start",
      max_review_rounds          |-> max_review_rounds,
      review_only_with_artifacts |-> review_only_with_artifacts,
      selector_mode              |-> None,
      round_index                |-> 0,
      review_feedback            |-> NoFeedback,
      clipped_feedback           |-> NoFeedback,
      feedbacks                  |-> << >>,
      candidate_output           |-> 0,
      last_decision              |-> "approved",
      review_result              |-> "approved",
      review_round               |-> 0,
      artifacts                  |-> FALSE,
      rounds                     |-> << >>,
      stage_transitions          |-> << >>,
      transfers                  |-> << >>,
      snapshots                  |-> << >>,
      selector_calls             |-> 0,
      planner_calls              |-> 0,
      single_calls               |-> << >>,
      developer_calls            |-> << >>,
      reviewer_calls             |-> << >>,
      single_result              |-> NoResult,
      result                     |-> NoResult ]

\* The plan workflow is not running under Spec.
PlanIdle == [PlanLocals(1, TRUE) EXCEPT !.wpc = "idle"]

\* PlanWorkflow._notify_agent_transfer
Notify(p, from, to, round) ==
    [p EXCEPT !.transfers = Append(@, <<from, to, round>>)]

\* stage_transitions.append({...})
Transition(p, from, to, round, status) ==
    [p EXCEPT !.stage_transitions =
        Append(@, [from |-> from, to |-> to, round |-> round, status |-> status])]

\* Variant of the loop bound that admits one round too many.
HasRoundOffByOne(round_index, max_review_rounds) == round_index <= max_review_rounds + 1

\* `for round_index in range(1, self.max_review_rounds + 1)` (line 427).
HasRound(round_index, max_review_rounds) == round_index <= max_review_rounds

\* The end of run after the loop (lines 538-587).
Finalize(p) ==
    LET p1 == IF p.review_result # "approved" /\ p.review_result # "completed"
              THEN Transition(Notify(p, "developer", "completed", p.max_review_rounds),
                              "developer", "completed", p.max_review_rounds, p.review_result)
              ELSE p
        review_result == IF p1.last_decision = "approved" /\ p1.review_result # "max_rounds_reached"
                         THEN "approved" ELSE p1.review_result
    IN [p1 EXCEPT !.wpc = "returned",
                  !.review_result = review_result,
                  !.result = [ output_text |-> <<"selector_info", "developer_output", "summary">>,
                               review_round |-> p1.review_round,
                               review_result |-> review_result,
                               selector_decision |-> p1.selector_mode,
                               delegated_to |-> None ]]

\* The top of a loop iteration up to the Developer call (lines 427-450), or
\* the end of the loop.
BeginRound(p, round_index) ==
    IF HasRound(round_index, p.max_review_rounds)
    THEN LET from_stage == IF round_index = 1 THEN "planner" ELSE "reviewer"
             p1 == Transition(Notify(p, from_stage, "developer", round_index),
                              from_stage, "developer", round_index, "completed")
         IN [p1 EXCEPT !.wpc = "developer",
                       !.round_index = round_index,
                       !.developer_calls =
                           Append(@, [round_index |-> round_index,
                                      user_input |-> ExecutionInput,
                                      review_feedback |-> p.review_feedback])]
    ELSE Finalize(p)

\* Variant of the delegation branch that prefixes the selector line to the
\* output, as the plan branch does.
DelegatedResultPrefixed(p, result) ==
    [ output_text |-> <<"selector_info">> \o result.output_text,
      review_round |-> result.review_round,
      review_result |-> result.review_result,
      selector_decision |-> p.selector_mode,
      delegated_to |-> "single_workflow" ]

\* The delegated result: single_workflow's result with metadata added (lines 385-395).
DelegatedResult(p, result) ==
    [ output_text |-> result.output_text,
      review_round |-> result.review_round,
      review_result |-> result.review_result,
      selector_decision |-> p.selector_mode,
      delegated_to |-> "single_workflow" ]

\* Variant of the approved branch that records the previous round.
ApprovedPreviousRound(p) ==
    LET p1 == IF p.round_index = p.max_review_rounds
              THEN Notify(p, "reviewer", "completed", p.round_index) ELSE p
        p2 == Transition(p1, "reviewer", "completed", p.round_index, "approved")
    IN [p2 EXCEPT !.review_result = "approved", !.review_round = p.round_index - 1]

\* `if decision.result == "approved"` up to the break (lines 485-510).
Approved(p) ==
    LET p1 == IF p.round_index = p.max_review_rounds
              THEN Notify(p, "reviewer", "completed", p.round_index) ELSE p
        p2 == Transition(p1, "reviewer", "completed", p.round_index, "approved")
    IN [p2 EXCEPT !.review_result = "approved", !.review_round = p.round_index]

\* Variant of the needs_changes bookkeeping that forgets review_round.
NeedsChangesForgetsRound(p) ==
    [Transition(p, "developer", "completed", p.round_index, "needs_changes")
        EXCEPT !.review_result = "needs_changes",
               !.review_feedback = p.clipped_feedback]

\* The bookkeeping after the second Developer call of a round (lines 524-536).
NeedsChanges(p) ==
    [Transition(p, "developer", "completed", p.round_index, "needs_changes")
        EXCEPT !.review_result = "needs_changes",
               !.review_round = p.round_index,
               !.review_feedback = p.clipped_feedback]

\* Variant of the status update that rewrites every record of the log.
SetEveryStatus(transitions, status) ==
    [i \in 1..Len(transitions) |-> [transitions[i] EXCEPT !.status = status]]

\* `stage_transitions[-1]["status"] = decision.result` (line 483).
SetLastStatus(transitions, status) ==
    [transitions EXCEPT ![Len(transitions)].status = status]

\* The Reviewer call of a round (lines 452-471).
CallReviewer(p, changed) ==
    LET artifacts == p.review_only_with_artifacts /\ changed
        p1 == Transition(Notify(p, "developer", "reviewer", p.round_index),
                         "developer", "reviewer", p.round_index, "pending")
    IN [p1 EXCEPT !.wpc = "reviewer",
                  !.artifacts = artifacts,
                  !.reviewer_calls = Append(@, [round_index |-> p.round_index,
                                                artifacts |-> artifacts])]

\* Variant that skips the Reviewer and approves the round when artifact
\* detection is on and nothing changed.
AfterDeveloperSkippingReviewer(p, changed) ==
    IF p.review_only_with_artifacts /\ ~changed
    THEN LET p1 == Transition(Notify(p, "developer", "reviewer", p.round_index),
                              "developer", "reviewer", p.round_index, "skipped")
             p2 == [p1 EXCEPT !.artifacts = FALSE,
                              !.last_decision = "approved",
                              !.rounds = Append(@, [round |-> p.round_index,
                                                    result |-> "approved",
                                                    artifacts |-> FALSE])]
         IN Finalize(Approved(p2))
    ELSE CallReviewer(p, changed)

\* What follows the Developer's return in a round (lines 452-471).
AfterDeveloper(p, changed) == CallReviewer(p, changed)

\* run is entered and the Selector is called (lines 359-361).
PlanStart ==
    /\ plan.wpc = "start"
    /\ plan' = [plan EXCEPT !.wpc = "selector", !.selector_calls = @ + 1]
    /\ UNCHANGED <<disk, running, req, store, lk, stage, hist, route, single, executor, multi, review, poll>>

\* The Selector answers (lines 361-409).
SelectorReturns(mode) ==
    /\ plan.wpc = "selector"
    /\ LET p0 == Transition([plan EXCEPT !.selector_mode = mode],
                            "start", "selector", 0, "completed")
       IN IF mode = "single"
          THEN plan' = [Transition(Notify(p0, "selector", "single_workflow", 0),
                                   "selector", "single_workflow", 0, "delegated")
                           EXCEPT !.wpc = "single_workflow",
                                  !.single_calls = Append(@, InputText)]
          ELSE plan' = [Transition(Notify(p0, "selector", "planner", 0),
                                   "selector", "planner", 0, "completed")
                           EXCEPT !.wpc = "planner",
                                  !.planner_calls = @ + 1]
    /\ UNCHANGED <<disk, running, req, store, lk, stage, hist, route, single, executor, multi, review, poll>>

\* single_workflow.run returns; its result is returned with metadata (lines 385-395).
SingleReturns(result) ==
    /\ plan.wpc = "single_workflow"
    /\ plan' = [plan EXCEPT !.wpc = "returned",
                            !.single_result = [NoResult EXCEPT
                                                  !.output_text = result.output_text,
                                                  !.review_round = result.review_round,
                                                  !.review_result = result.review_result],
                            !.result = DelegatedResult(plan, result)]
    /\ UNCHANGED <<disk, running, req, store, lk, stage, hist, route, single, executor, multi, review, poll>>

\* The Planner answers; the loop is entered (lines 409-450).
PlannerReturns ==
    /\ plan.wpc = "planner"
    /\ plan' = BeginRound(plan, 1)
    /\ UNCHANGED <<disk, running, req, store, lk, stage, hist, route, single, executor, multi, review, poll>>

\* The Developer answers; the snapshots are compared and the Reviewer is
\* called (lines 445-471).  Without artifact detection no snapshot is taken.
DeveloperReturns(changed) ==
    /\ plan.wpc = "developer"
    /\ plan.review_only_with_artifacts \/ ~changed
    /\ plan' = AfterDeveloper([plan EXCEPT !.candidate_output = @ + 1,
                                           !.snapshots = Append(@, changed)],
                              changed)
    /\ UNCHANGED <<disk, running, req, store, lk, stage, hist, route, single, executor, multi, review, poll>>

\* The Reviewer answers (lines 472-523).
ReviewerReturns(decision, len, pad) ==
    /\ plan.wpc = "reviewer"
    /\ LET feedback == [round |-> plan.round_index, len |-> len, pad |-> pad, cut |-> FALSE]
           p1 == [plan EXCEPT !.rounds = Append(@, [round |-> plan.round_index,
                                                    result |-> decision,
                                                    artifacts |-> plan.artifacts]),
                              !.feedbacks = Append(@, feedback),
                              !.clipped_feedback = ClipFeedback(feedback),
                              !.last_decision = decision,
                              !.stage_transitions = SetLastStatus(@, decision)]
       IN IF decision = "approved"
          THEN plan' = Finalize(Approved(p1))
          ELSE plan' = [Notify(p1, "reviewer", "developer", plan.round_index)
                           EXCEPT !.wpc = "developer_fix",
                                  !.developer_calls =
                                      Append(@, [round_index |-> plan.round_index,
                                                 user_input |-> ExecutionInput,
                                                 review_feedback |-> p1.clipped_feedback])]
    /\ UNCHANGED <<disk, running, req, store, lk, stage, hist, route, single, executor, multi, review, poll>>

\* The Developer's second answer of a round; the next iteration starts or the
\* loop ends (lines 518-536, 427-450, 538-587).
DeveloperFixReturns ==
    /\ plan.wpc = "developer_fix"
    /\ plan' = BeginRound(NeedsChanges([plan EXCEPT !.candidate_output = @ + 1]),
                          plan.round_index + 1)
    /\ UNCHANGED <<disk, running, req, store, lk, stage, hist, route, single, executor, multi, review, poll>>

AwaitingStage == {"selector", "single_workflow", "planner", "developer", "reviewer", "developer_fix"}

\* The awaited stage raises (CodexExecutionError from the executor or from the
\* prompt-echo check) and the exception leaves run.
StageRaises ==
    /\ plan.wpc \in AwaitingStage
    /\ plan' = [plan EXCEPT !.wpc = "raised"]
    /\ UNCHANGED <<disk, running, req, store, lk, stage, hist, route, single, executor, multi, review, poll>>

PlanInit ==
    /\ disk = [s \in Sessions |-> Missing]
    /\ running = [s \in Sessions |-> NoTask]
    /\ req = [r \in Req |-> IdleReq]
    /\ \E m \in 1..MaxRounds, a \in BOOLEAN : plan = PlanLocals(m, a)
    /\ store = StoreIdle
    /\ lk = LkIdle
    /\ poll = PollIdle
    /\ review = ReviewIdle
    /\ multi = MultiIdle
    /\ executor = ExecutorIdle
    /\ single = SingleIdle
    /\ route = RouteIdle
    /\ hist = HistIdle
    /\ stage = StageIdle

PlanNext ==
    \/ PlanStart
    \/ \E mode \in {"single", "plan"} : SelectorReturns(mode)
    \/ \E result \in SingleResults : SingleReturns(result)
    \/ PlannerReturns
    \/ \E changed \in BOOLEAN : DeveloperReturns(changed)
    \/ \E decision \in {"approved", "needs_changes"}, len \in FeedbackLens, pad \in BOOLEAN :
            ReviewerReturns(decision, len, pad)
    \/ DeveloperFixReturns
    \/ StageRaises

PlanSpec == PlanInit /\ [][PlanNext]_vars

\* Every awaited executor call eventually answers or raises.
FairPlanSpec == PlanSpec /\ WF_vars(PlanNext)

LockInit ==
    /\ disk = [s \in Sessions |-> Missing]
    /\ running = [s \in Sessions |-> NoTask]
    /\ req = [r \in Req |-> IdleReq]
    /\ plan = PlanIdle
    /\ store = StoreIdle
    /\ lk = LkIdle
    /\ poll = PollIdle
    /\ review = ReviewIdle
    /\ multi = MultiIdle
    /\ executor = ExecutorIdle
    /\ single = SingleIdle
    /\ route = RouteIdle
    /\ hist = HistIdle
    /\ stage = StageIdle

LockNext ==
    \/ \E t \in Tasks, op \in Ops, key \in Sessions : LockEnter(t, op, key)
    \/ \E t \in Tasks : LockAcquire(t)
    \/ \E t \in Tasks : LockResume(t)
    \/ \E t \in Tasks : LockRelease(t)
    \/ \E t \in Tasks : LockAwait(t)

LockSpec == LockInit /\ [][LockNext]_vars

\* The event loop runs every task that is ready to run.
FairLockSpec == LockSpec /\ \A t \in Tasks : WF_vars(TaskStep(t))

\* A session file as a process finds it: absent, written by save(), cut short,
\* or not a JSON object.
StoreInit ==
    /\ disk = [s \in Sessions |-> Missing]
    /\ running = [s \in Sessions |-> NoTask]
    /\ req = [r \in Req |-> IdleReq]
    /\ plan = PlanIdle
    /\ lk = LkIdle
    /\ poll = PollIdle
    /\ review = ReviewIdle
    /\ multi = MultiIdle
    /\ executor = ExecutorIdle
    /\ single = SingleIdle
    /\ route = RouteIdle
    /\ hist = HistIdle
    /\ stage = StageIdle
    /\ \E f \in PersistedRecords \cup {Missing, Truncated, NotObject} :
            store = [StoreIdle EXCEPT !.path = f, !.prev = f]

StoreNext ==
    \/ StoreLoad
    \/ \E change \in Changes : StoreSaveBegins(change)
    \/ StoreResetBegins
    \/ StoreWriteTmp
    \/ StoreReplace
    \/ StoreCrash
    \/ StoreLoadAfterCrash

StoreSpec == StoreInit /\ [][StoreNext]_vars

Init ==
    /\ disk = [s \in Sessions |-> Missing]
    /\ running = [s \in Sessions |-> NoTask]
    /\ req = [r \in Req |-> IdleReq]
    /\ plan = PlanIdle
    /\ store = StoreIdle
    /\ lk = LkIdle
    /\ poll = PollIdle
    /\ review = ReviewIdle
    /\ multi = MultiIdle
    /\ executor = ExecutorIdle
    /\ single = SingleIdle
    /\ route = RouteIdle
    /\ hist = HistIdle
    /\ stage = StageIdle

\* Every way a handle_message call for a session of S can take a step.
NextOver(S) ==
    \/ \E r \in Req, s \in S : CmdStart(r, s)
    \/ \E r \in Req, s \in S, mode \in ModeArgs : CmdMode(r, s, mode)
    \/ \E r \in Req, s \in S : CmdNew(r, s)
    \/ \E r \in Req, s \in S : CmdStatus(r, s)
    \/ \E r \in Req, s \in S, a \in ProfileArgs : CmdProfile(r, s, a)
    \/ \E r \in Req, s \in S : CmdCancel(r, s)
    \/ \E r \in Req, s \in S : StartWorkflow(r, s)
    \/ \E r \in Req, result \in WorkflowResults : WorkflowReturns(r, result)
    \/ \E r \in Req, exc \in Exceptions : WorkflowRaises(r, exc)
    \/ \E r \in Req : WorkflowCancelled(r)

\* One conversation sending up to MaxRequests messages, in any interleaving.
Next == NextOver({"s1"})

Spec == Init /\ [][Next]_vars

\* The process dies and is started again: the tasks in flight are gone, the
\* new BotOrchestrator has an empty _running_tasks, the session files stay.
Restart ==
    /\ \E q \in Req : InWorkflow(q)
    /\ req' = [q \in Req |-> IF InWorkflow(q)
                             THEN [req[q] EXCEPT !.pc = "killed", !.cancelling = FALSE]
                             ELSE req[q]]
    /\ running' = [s \in Sessions |-> NoTask]
    /\ UNCHANGED <<disk, plan, store, lk, stage, hist, route, single, executor, multi, review, poll>>

RestartNext == Next \/ Restart

RestartSpec == Init /\ [][RestartNext]_vars

\* ------------------------------------------- failing workflows and /status
\* The exceptions workflow.run is made to raise: of both classes, with a
\* message that is empty, blank, short, exactly at the limit (with and without
\* surrounding whitespace), one character over it, and far over it.
Errors ==
    { [type |-> "CodexExecutionError", text |-> "", len |-> 0, pad |-> 0],
      [type |-> "CodexExecutionError", text |-> "  ", len |-> 2, pad |-> 2],
      [type |-> "CodexExecutionError", text |-> "mcp missing", len |-> 11, pad |-> 0],
      [type |-> "CodexExecutionError", text |-> "at limit", len |-> DetailLimit, pad |-> 0],
      [type |-> "CodexExecutionError", text |-> " at limit ", len |-> DetailLimit + 2, pad |-> 2],
      [type |-> "CodexExecutionError", text |-> "over limit", len |-> DetailLimit + 1, pad |-> 0],
      [type |-> "CodexExecutionError", text |-> "far over limit", len |-> DetailLimit + DetailLimit, pad |-> 0],
      [type |-> "Exception", text |-> "", len |-> 0, pad |-> 0],
      [type |-> "Exception", text |-> "internal detail", len |-> 15, pad |-> 0],
      [type |-> "Exception", text |-> "long internal detail", len |-> DetailLimit + 1, pad |-> 0] }

\* Text messages whose workflow returns or raises, and /status, of one session.
ErrorNext ==
    \/ \E r \in Req : StartWorkflow(r, "s1")
    \/ \E r \in Req : CmdStatus(r, "s1")
    \/ \E r \in Req, result \in WorkflowResults : WorkflowReturns(r, result)
    \/ \E r \in Req, err \in Errors : Raises(r, err)

ErrorSpec == Init /\ [][ErrorNext]_vars

\* ------------------------------------------------------- one stage agent
StageInit ==
    /\ disk = [s \in Sessions |-> Missing]
    /\ running = [s \in Sessions |-> NoTask]
    /\ req = [r \in Req |-> IdleReq]
    /\ plan = PlanIdle
    /\ store = StoreIdle
    /\ lk = LkIdle
    /\ poll = PollIdle
    /\ review = ReviewIdle
    /\ multi = MultiIdle
    /\ executor = ExecutorIdle
    /\ single = SingleIdle
    /\ route = RouteIdle
    /\ hist = HistIdle
    /\ stage = StageIdle

StageNext ==
    \/ \E agent \in Agents : StageCall(agent)
    \/ \E response \in SUBSET Phrases : StageAnswer(response)

StageSpec == StageInit /\ [][StageNext]_vars

\* ------------------------------------------------- the history of a session
HistNext ==
    \/ \E input_text \in InputTexts : HistRunStarts(input_text)
    \/ HistRunReturns({})
    \/ HistRunRaises

HistSpec == Init /\ [][HistNext]_vars

\* The history of a session whose user also sends /new.
HistNewNext ==
    \/ HistNext
    \/ HistNew

HistNewSpec == Init /\ [][HistNewNext]_vars

\* ----------------------------------------- one run of the single workflow
SingleInit ==
    /\ disk = [s \in Sessions |-> Missing]
    /\ running = [s \in Sessions |-> NoTask]
    /\ req = [r \in Req |-> IdleReq]
    /\ plan = PlanIdle
    /\ store = StoreIdle
    /\ lk = LkIdle
    /\ poll = PollIdle
    /\ review = ReviewIdle
    /\ multi = MultiIdle
    /\ executor = ExecutorIdle
    /\ stage = StageIdle
    /\ hist = HistIdle
    /\ route = RouteIdle
    /\ \E m \in 1..MaxRounds, a \in BOOLEAN : single = SingleLocals(m, a)

SingleNext ==
    \/ SingleStart
    \/ SinglePlannerReturns
    \/ \E c \in CandidateOutputs, changed \in BOOLEAN : SingleDeveloperReturns(c, changed)
    \/ \E decision \in {"approved", "needs_changes"}, f \in Feedbacks :
            SingleReviewerReturns(decision, f)
    \/ SingleStageRaises

SingleSpec == SingleInit /\ [][SingleNext]_vars

\* ------------------------------------------------------- one executor
ExecutorNext ==
    \/ ExecutorRun
    \/ ExecutorStartFails
    \/ \E output \in {"text", "error", "empty"} : ExecutorCallReturns(output)
    \/ ExecutorCallFails
    \/ ExecutorCancel
    \/ ExecutorCancelledInCall
    \/ \E failed \in BOOLEAN : ExecutorSessionClosed(failed)
    \/ \E failed \in BOOLEAN : ExecutorStdioClosed(failed)
    \/ ExecutorCancelledInClose
    \/ ExecutorCallerCancelled

ExecutorSpec == Init /\ [][ExecutorNext]_vars

\* ------------------------------------------- one run of the multi workflow
MultiInit ==
    /\ disk = [s \in Sessions |-> Missing]
    /\ running = [s \in Sessions |-> NoTask]
    /\ req = [r \in Req |-> IdleReq]
    /\ plan = PlanIdle
    /\ store = StoreIdle
    /\ lk = LkIdle
    /\ poll = PollIdle
    /\ review = ReviewIdle
    /\ executor = ExecutorIdle
    /\ stage = StageIdle
    /\ hist = HistIdle
    /\ route = RouteIdle
    /\ single = SingleIdle
    /\ \E m \in 0..MaxRoleRetries : multi = MultiLocals(m)

MultiNext ==
    \/ MultiStart
    \/ \E enabled \in [Roles -> BOOLEAN], required_outputs \in [Roles -> RequiredOutputs] :
            MultiPlanReturns(enabled, required_outputs)
    \/ \E created \in SUBSET Paths : MultiRoleReturns(created)
    \/ MultiFinalizeReturns
    \/ MultiStageRaises

MultiSpec == MultiInit /\ [][MultiNext]_vars

\* ------------------------------------------------- one Reviewer answer
ReviewNext ==
    \/ \E raw \in RawReviews : ReviewAnswered(raw)
    \/ ReviewParsed

ReviewSpec == Init /\ [][ReviewNext]_vars

\* ------------------------------------------------- the wait after /cancel
PollNext ==
    \/ PollCreateTask
    \/ PollBusy
    \/ \E output \in CancelOutputs, requested \in BOOLEAN : PollCancel(output, requested)
    \/ \E how \in {"returned", "failed", "cancelled"} : PollTaskEnds(how)
    \/ PollWaitTimeout
    \/ PollLoopCancelled

PollSpec == Init /\ [][PollNext]_vars

\* ------------------------------------------------------- routing one text
RouteNext ==
    \/ \E token \in Tokens : RouteType(token)
    \/ \E lead, trail \in BOOLEAN : RouteMessage(lead, trail)

RouteSpec == Init /\ [][RouteNext]_vars

\* -------------------------------------- scripts/telegram_polling_runner.py
\* _run_polling hands every inbound update to the orchestrator.  It keeps one
\* active_request_task for the whole process: /cancel is awaited in the loop
\* itself, every other update becomes the active task unless the previous one
\* has not finished.
ActiveRequests == {q \in Req : req[q].pc = "in_workflow"}

\* `active_request_task is not None and not active_request_task.done()` (line 872)
RunnerActive == ActiveRequests # {}

ActiveSession == IF RunnerActive THEN req[CHOOSE q \in ActiveRequests : TRUE].sess ELSE None

\* An update arrives while the active task runs: the runner answers that a
\* task is already running and drops the update (lines 872-879).
RunnerBusy(r, s) ==
    /\ NextFree(r)
    /\ RunnerActive
    /\ req' = [Finish(req, r, s, "text", None, "busy", disk)
                  EXCEPT ![r].outcome = "busy", ![r].blocked_by = ActiveSession]
    /\ UNCHANGED <<disk, running, plan, store, lk, stage, hist, route, single, executor, multi, review, poll>>

\* A text update with no active task: create_task(_process_inbound_request)
\* (lines 881-893), which calls handle_message.
RunnerText(r, s) == ~RunnerActive /\ StartWorkflow(r, s)

\* A command other than /cancel takes the same path.
RunnerStatus(r, s) == ~RunnerActive /\ CmdStatus(r, s)

\* /cancel is passed to handle_message at once (lines 837-870).
RunnerCancel(r, s) == CmdCancel(r, s)

RunnerNext ==
    \/ \E r \in Req, s \in Sessions : RunnerBusy(r, s)
    \/ \E r \in Req, s \in Sessions : RunnerText(r, s)
    \/ \E r \in Req, s \in Sessions : RunnerStatus(r, s)
    \/ \E r \in Req, s \in Sessions : RunnerCancel(r, s)
    \/ \E r \in Req, result \in WorkflowResults : WorkflowReturns(r, result)
    \/ \E r \in Req, exc \in Exceptions : WorkflowRaises(r, exc)
    \/ \E r \in Req : WorkflowCancelled(r)

RunnerSpec == Init /\ [][RunnerNext]_vars

\* ================================================================ claims
Done(r) == req[r].pc = "done"

\* C1: for one session, two concurrently submitted non-command messages never
\* both execute a workflow: at most one request of a session is inside
\* workflow.run at any instant (the later one gets the busy reply instead).
C1_MutualExclusion ==
    \A r1, r2 \in Req :
        (r1 # r2 /\ InWorkflow(r1) /\ InWorkflow(r2)) => req[r1].sess # req[r2].sess

\* C2: whenever handle_message for a non-command message finishes after a
\* workflow ran - success, exception or cancellation - the persisted in-flight
\* flag of the session is false.
C2_FlagClearedWhenRunFinishes ==
    \A r \in Req :
        (Done(r) /\ req[r].outcome \in {"ok", "error", "cancelled"}) => ~req[r].seen.run_lock

C2_Witness ==
    \E r1, r2 \in Req :
        /\ Done(r1) /\ req[r1].outcome = "cancelled"
        /\ Done(r2) /\ req[r2].outcome \in {"ok", "error"}

\* C3 (as amended): when the request cancelled by /cancel has returned, the
\* persisted in-flight flag is false, last_run_status is "error" and last_error is
\* "cancelled", and the task is no longer registered.
C3_CancelLeavesErrorCancelled ==
    \A r \in Req :
        (Done(r) /\ req[r].outcome = "cancelled") =>
            /\ ~req[r].seen.run_lock
            /\ req[r].seen.last_run_status = "error"
            /\ req[r].seen.last_error = "cancelled"
            /\ running[req[r].sess] # r

C3_Witness ==
    \E r, c \in Req :
        /\ Done(r) /\ req[r].outcome = "cancelled" /\ req[r].reply = "cancel_done"
        /\ Done(c) /\ req[c].kind = "cancel" /\ req[c].reply = "requested"

\* C3 (as stated): after the cancelled request has returned the in-flight flag is
\* false and the last run status is a cancellation status, i.e. a status value
\* that is none of those recorded for an idle, a successful or a failed run.
C3_CancelLeavesCancellationStatus ==
    \A r \in Req :
        (Done(r) /\ req[r].outcome = "cancelled") =>
            /\ ~req[r].seen.run_lock
            /\ req[r].seen.last_run_status \notin {"idle", "ok", "error"}

\* C9: every /cancel handled while no run of the session is in flight returns
\* the "no running task" reply (and handle_message returns, it does not raise).
C9_IdleCancelRepliesNoRunningTask ==
    \A r \in Req :
        (Done(r) /\ req[r].kind = "cancel" /\ ~req[r].in_flight) =>
            req[r].reply = "no_running_task"

C9_Witness ==
    \E r \in Req :
        /\ r + 1 \in Req
        /\ \A c \in {r, r + 1} :
              /\ Done(c) /\ req[c].kind = "cancel" /\ ~req[c].in_flight
              /\ req[c].reply = "no_running_task"

\* C10 (as amended): a cancelled run is recorded with last_run_status "error",
\* the same status value as a run that ended with an error, marked only by
\* last_error "cancelled"; both leave the session unlocked.
C10_CancelRecordedAsError ==
    \A r \in Req :
        /\ (Done(r) /\ req[r].outcome = "cancelled") =>
              /\ req[r].seen.last_run_status = "error"
              /\ req[r].seen.last_error = "cancelled"
              /\ ~req[r].seen.run_lock
        /\ (Done(r) /\ req[r].outcome = "error") =>
              /\ req[r].seen.last_run_status = "error"
              /\ ~req[r].seen.run_lock

C10_Witness ==
    \E r1, r2 \in Req :
        /\ Done(r1) /\ req[r1].outcome = "cancelled"
        /\ Done(r2) /\ req[r2].outcome = "error"
        /\ req[r1].seen.last_run_status = req[r2].seen.last_run_status

\* C10 (as stated): a cancelled run has a terminal run status of its own,
\* different from the one recorded for a run that ended with an error, and the
\* session is left unlocked.
C10_CancelStatusDistinctFromError ==
    \A r1, r2 \in Req :
        (Done(r1) /\ req[r1].outcome = "cancelled" /\ Done(r2) /\ req[r2].outcome = "error") =>
            /\ req[r1].seen.last_run_status # req[r2].seen.last_run_status
            /\ ~req[r1].seen.run_lock


\* ---------------------------------------------- claims on the plan workflow
PlanEnded == plan.wpc \in {"returned", "raised"}

RoundResults == [i \in DOMAIN plan.rounds |-> plan.rounds[i].result]

\* The Reviewer answered needs_changes in every one of the max_review_rounds rounds.
AllNeedsChanges ==
    /\ Len(plan.rounds) = plan.max_review_rounds
    /\ \A i \in DOMAIN plan.rounds : plan.rounds[i].result = "needs_changes"

\* The Reviewer answered needs_changes in rounds 1..k-1 and approved in round k.
ApprovedAtLast ==
    /\ Len(plan.rounds) >= 1
    /\ plan.rounds[Len(plan.rounds)].result = "approved"
    /\ \A i \in 1..(Len(plan.rounds) - 1) : plan.rounds[i].result = "needs_changes"

\* C4: for any max_review_rounds >= 1 and any Reviewer decisions, the review
\* loop never starts more than max_review_rounds rounds and never invokes the
\* Reviewer more than max_review_rounds times, the run ends, and a run that
\* ends without a stage raising has returned a result.
C4_ReviewLoopTerminates ==
    /\ [](/\ plan.round_index <= plan.max_review_rounds
          /\ Len(plan.reviewer_calls) <= plan.max_review_rounds
          /\ Len(plan.rounds) <= plan.max_review_rounds)
    /\ <>PlanEnded
    /\ [](plan.wpc = "returned" => plan.result.review_result \in {"approved", "needs_changes"})

C4_Witness ==
    /\ plan.wpc = "returned"
    /\ plan.selector_mode = "plan"
    /\ plan.max_review_rounds >= 2
    /\ Len(plan.reviewer_calls) = plan.max_review_rounds

C6_ApprovedInRoundK ==
    (plan.wpc = "returned" /\ plan.selector_mode = "plan" /\ ApprovedAtLast)
        => /\ Len(plan.rounds) <= plan.max_review_rounds
           /\ plan.result.review_round = Len(plan.rounds)
           /\ plan.result.review_result = "approved"

C6_Witness ==
    /\ plan.wpc = "returned"
    /\ plan.max_review_rounds = 3
    /\ RoundResults = <<"needs_changes", "approved">>
    /\ plan.result.review_round = 2

\* C7: once the Selector has answered single, the planner, developer and
\* reviewer stages are never invoked and the single workflow is invoked at most
\* once; when the run has returned it was invoked exactly once, with the
\* original input, and the returned output_text, review_round and
\* review_result are the single workflow's own, with the selector's decision
\* and the delegation recorded beside them.
C7_SingleDelegation ==
    plan.selector_mode = "single"
        => /\ plan.planner_calls = 0
           /\ plan.developer_calls = << >>
           /\ plan.reviewer_calls = << >>
           /\ Len(plan.single_calls) <= 1
           /\ plan.wpc = "returned"
                => /\ plan.single_calls = <<InputText>>
                   /\ plan.result.output_text = plan.single_result.output_text
                   /\ plan.result.review_round = plan.single_result.review_round
                   /\ plan.result.review_result = plan.single_result.review_result
                   /\ plan.result.selector_decision = "single"
                   /\ plan.result.delegated_to = "single_workflow"

C7_Witness ==
    /\ plan.wpc = "returned"
    /\ plan.selector_mode = "single"
    /\ plan.single_calls = <<InputText>>
    /\ plan.result.output_text = <<"single_output">>

ReviewerCallsOfRound(i) ==
    { j \in DOMAIN plan.reviewer_calls : plan.reviewer_calls[j].round_index = i }

\* C8 (amended): with artifact detection on, a round whose snapshots before
\* and after the Developer call show no change still invokes the Reviewer,
\* exactly once and with an empty artifact list, and the round is recorded
\* with the decision the Reviewer gave: there is no automatic approval.
C8_NoChangeStillReviewed ==
    \A i \in DOMAIN plan.snapshots :
        (plan.review_only_with_artifacts /\ ~plan.snapshots[i])
            => /\ Cardinality(ReviewerCallsOfRound(i)) = 1
               /\ \A j \in ReviewerCallsOfRound(i) : ~plan.reviewer_calls[j].artifacts
               /\ i \in DOMAIN plan.rounds
                    => /\ plan.rounds[i].round = i
                       /\ ~plan.rounds[i].artifacts
                       /\ \E t \in DOMAIN plan.stage_transitions :
                            plan.stage_transitions[t] =
                                [from |-> "developer", to |-> "reviewer", round |-> i,
                                 status |-> plan.rounds[i].result]

C8_Witness ==
    /\ plan.review_only_with_artifacts
    /\ Len(plan.snapshots) >= 1
    /\ ~plan.snapshots[1]
    /\ Len(plan.rounds) >= 1
    /\ plan.rounds[1].result = "needs_changes"
    /\ ReviewerCallsOfRound(1) = {1}

\* C8 as stated: with artifact detection on, a round whose snapshots show no
\* change never invokes the Reviewer and is approved.
C8_NoChangeSkipsReviewer ==
    \A i \in DOMAIN plan.snapshots :
        (plan.review_only_with_artifacts /\ ~plan.snapshots[i])
            => /\ ReviewerCallsOfRound(i) = {}
               /\ i \in DOMAIN plan.rounds => plan.rounds[i].result = "approved"

\* ------------------------------------------- claims on the session store
\* The operation on the store was a save() of exactly what load() returned
\* for a session file that save() had written.
RoundTripDone ==
    /\ store.pc = "saved"
    /\ store.op = "roundtrip"
    /\ store.prev \in PersistedRecords

\* C11: load followed by save of the loaded session leaves every persisted
\* field of a session record as it was (updated_at aside).
C11_LoadSaveRoundTrip ==
    RoundTripDone => store.path = store.prev

\* C12: once save() has begun, and whenever the process dies, the session
\* file holds either the whole record it held before or the whole record
\* being saved, and the load of the next process returns what load returns
\* for one of those two.
C12_CrashLeavesWholeRecord ==
    store.op \in {"roundtrip", "update", "reset"}
        => /\ store.path \in {store.prev, store.payload}
           /\ store.pc = "reloaded"
                => store.session \in {Load(StoreKey, store.prev), Load(StoreKey, store.payload)}
           /\ store.pc = "reload_raised" => (store.path = store.prev /\ LoadRaises(store.prev))

C12_Witness ==
    /\ store.pc = "reloaded"
    /\ store.crashed_at = "tmp_open"
    /\ store.tmp = Truncated
    /\ store.prev \in PersistedRecords
    /\ store.payload # store.prev
    /\ store.session = Load(StoreKey, store.prev)

\* The load was of a missing or a corrupt record.
LoadedMissingOrCorrupt ==
    /\ store.pc \in {"loaded", "load_raised"}
    /\ ~store.path.exists \/ store.path.form # "ok"

\* C13: load of a missing record and load of a corrupt record both return a
\* new session, without raising, with last_error set to the marker.
C13_MissingOrCorruptLoadsMarked ==
    LoadedMissingOrCorrupt
        => /\ store.pc = "loaded"
           /\ store.session = [NewSession(StoreKey) EXCEPT !.last_error = "session_load_failed"]

\* ------------------------------------- claims on the orchestrator, continued
\* C14: the record /new leaves (reset, default profile, save) has an empty
\* history and a cleared run state (run_lock false, no last error, status
\* idle, review round 0, no review result) and carries the session id, chat id
\* and user id of its key, as does every record of that key before and after.
C14_ResetClearsRunStateKeepsIdentity ==
    /\ \A s \in Sessions :
          disk[s].exists
              => (disk[s].session_id = s /\ disk[s].chat_id = s /\ disk[s].user_id = s)
    /\ \A r \in Req :
          (req[r].pc = "done" /\ req[r].kind = "new")
              => /\ req[r].seen.exists
                 /\ req[r].seen.history = << >>
                 /\ ~req[r].seen.run_lock
                 /\ req[r].seen.last_error = None
                 /\ req[r].seen.last_run_status = "idle"
                 /\ req[r].seen.last_review_round = 0
                 /\ req[r].seen.last_review_result = None
                 /\ req[r].seen.session_id = req[r].sess
                 /\ req[r].seen.chat_id = req[r].sess
                 /\ req[r].seen.user_id = req[r].sess

C14_Witness ==
    \E q, r \in Req :
        /\ q < r
        /\ req[q].pc = "done" /\ req[q].outcome = "ok"
        /\ req[q].seen.history # << >>
        /\ req[q].seen.last_review_round = 1
        /\ req[r].pc = "done" /\ req[r].kind = "new"
        /\ req[r].seen.history = << >>
        /\ req[r].seen.session_id = req[q].seen.session_id

\* ----------------------------------------------------- claims on the locks
Holders(l) == {t \in Tasks : l \in lk.task[t].holds}

Waiting(t) == lk.task[t].waiting

\* Task u has the lock task t waits for, or queues for it.
Delays(u, t) ==
    /\ u # t
    /\ Step(t).lock \in lk.task[u].holds
         \/ \E i \in DOMAIN lk.waiters[Step(t).lock] : lk.waiters[Step(t).lock][i] = u

\* C15: a lock never has two holders, and a task that waits for the lock of
\* its session key waits only because a task of the same key holds that lock
\* or queues for it (or because its own wake-up is pending): tasks of other
\* keys never delay it.
C15_PerKeyMutualExclusion ==
    /\ \A l \in DOMAIN lk.locked :
          /\ Cardinality(Holders(l)) <= 1
          /\ lk.locked[l] <=> Holders(l) # {}
    /\ \A t \in Tasks :
          (Waiting(t) /\ Step(t).lock # RegistryLock)
              => \/ lk.woken[Step(t).lock] = t
                 \/ \E u \in Tasks : Delays(u, t) /\ lk.task[u].key = lk.task[t].key

C15_Witness ==
    \E t, u \in Tasks :
        /\ lk.task[t].key = lk.task[u].key
        /\ LockOf(lk.task[t].key) \in lk.task[t].holds
        /\ Waiting(u)
        /\ Step(u).lock = LockOf(lk.task[u].key)

\* C16: no task ever holds two locks, so in particular none acquires a
\* session lock while holding that of another key; and no task waits for a
\* lock or stays inside its operation for ever: there comes a time after which
\* no task is waiting or unfinished.
C16_NoNestingNoDeadlock ==
    /\ [](\A t \in Tasks : Cardinality(lk.task[t].holds) <= 1)
    /\ <>[](\A t \in Tasks : ~Waiting(t) /\ ~AtStep(t))

C16_Witness ==
    \E t, u \in Tasks :
        /\ lk.task[t].key # lk.task[u].key
        /\ lk.task[t].op = "workflow" /\ lk.task[u].op = "workflow"
        /\ lk.task[t].holds = {LockOf(lk.task[t].key)}
        /\ lk.task[u].holds = {LockOf(lk.task[u].key)}

\* C17: a text message is never answered with the busy reply on account of a
\* run of a different session: while a workflow of session A is in flight a
\* message for session B is admitted.
C17_OtherSessionAdmitted ==
    \A r \in Req :
        (req[r].pc = "done" /\ req[r].kind = "text" /\ req[r].reply = "busy")
            => req[r].blocked_by = req[r].sess

\* C18: a /cancel that finds no live task of its session answers "no running
\* task" and leaves the persisted run_lock false, also when a process that
\* died in the middle of a run had left it true.
C18_StaleFlagReconciled ==
    \A r \in Req :
        (req[r].pc = "done" /\ req[r].kind = "cancel" /\ ~req[r].in_flight)
            => /\ req[r].reply = "no_running_task"
               /\ ~req[r].seen.run_lock

\* The workflow of request r has raised and handle_message has returned.
Failed(r) == req[r].pc = "done" /\ req[r].outcome = "error"

\* C19: a failing workflow ends in a reply. A CodexExecutionError yields the
\* configuration-error reply, whose detail is the stripped message when that
\* has at most 280 characters and else its first 280 characters and "..."; any
\* other exception yields the internal-error reply, without detail. Either
\* way the session's last error is the raw message and its status "error".
C19_FailureReplies ==
    \A r \in Req :
        /\ req[r].error # NoError => Failed(r)
        /\ Failed(r) =>
              LET err == req[r].error
                  stripped == err.len - err.pad
              IN /\ req[r].seen.last_error = err.text
                 /\ req[r].seen.last_run_status = "error"
                 /\ ~req[r].seen.run_lock
                 /\ err.type = "CodexExecutionError" =>
                       /\ req[r].reply = "config_error"
                       /\ req[r].detail.chars <= DetailLimit
                       /\ req[r].detail.ellipsis = (stripped > DetailLimit)
                       /\ req[r].detail.unknown = (stripped = 0)
                       /\ stripped <= DetailLimit => req[r].detail.chars = stripped
                       /\ stripped > DetailLimit => req[r].detail.chars = DetailLimit
                 /\ err.type # "CodexExecutionError" =>
                       /\ req[r].reply = "internal_error"
                       /\ req[r].detail = NoDetail
                       /\ req[r].shown = None

\* Both kinds of failure have been answered, the first with a cut detail.
C19_Witness ==
    /\ \E r \in Req : Failed(r) /\ req[r].error.type = "CodexExecutionError"
                                 /\ req[r].detail.ellipsis
    /\ \E r \in Req : Failed(r) /\ req[r].error.type = "Exception"
                                 /\ req[r].seen.last_error = "internal detail"

\* The messages of the internal errors raised so far.
InternalDetails ==
    { req[q].error.text : q \in { p \in Req : Failed(p) /\ req[p].error.type = "Exception"
                                                       /\ req[p].error.len > 0 } }

\* C20: no reply shows the message of an internal error.
C20_InternalDetailNeverShown ==
    \A r \in Req : req[r].pc = "done" => req[r].shown \notin InternalDetails

\* ----------------------------------------------- claims on the stage agents
\* C21: an agent whose executor answers with an echo of the agent's prompt or
\* of its system instructions raises CodexExecutionError.
C21_EchoFailsFast ==
    (stage.pc \in {"returned", "raised"} /\ stage.output \in Echoes(stage.agent))
        => stage.pc = "raised"

\* -------------------------------------------------- claims on the history
\* C22: the persisted history holds at most 20 turns.
C22_PersistedHistoryCapped == Len(hist.persisted) <= MaxHistoryItems

\* C23: no turn of the persisted history is recognized as a prompt echo.
C23_NoEchoPersisted ==
    \A i \in 1..Len(hist.persisted) : ~LooksLikePromptEcho(hist.persisted[i].content)

\* ------------------------------------------ claims on the review round counter
\* Within one run of the plan workflow review_round starts at zero and never
\* decreases.
RoundNeverDecreasesInRun ==
    /\ plan.wpc = "start" => plan.review_round = 0
    /\ [][plan'.review_round >= plan.review_round]_vars

\* C24: while a run is in flight the session's last_review_round is zero,
\* and it is zero after a run that ended in an error or was cancelled.
C24_SessionRoundResetAtRunStart ==
    \A r \in Req :
        /\ InWorkflow(r) => disk[req[r].sess].last_review_round = 0
        /\ (req[r].pc = "done" /\ req[r].outcome \in {"error", "cancelled"})
              => req[r].seen.last_review_round = 0

\* ------------------------------------------------------ claims on the mode
\* Request q is the last /mode or /new of its session before request r.
LastModeChange(q, r) ==
    /\ q < r
    /\ req[q].pc = "done" /\ req[q].sess = req[r].sess
    /\ req[q].kind = "new" \/ (req[q].kind = "mode" /\ req[q].reply = "mode_set")
    /\ \A k \in Req : (q < k /\ k < r) => req[k].kind \notin {"mode", "new"}

\* Request r has been run by a workflow, or is a /status that was answered.
RunByWorkflow(r) == req[r].kind = "text" /\ req[r].workflow # None
StatusAnswered(r) == req[r].pc = "done" /\ req[r].kind = "status"

\* C25: after "/mode m" with m single or plan, and until the next /mode or
\* /new, text messages are run by workflow m and /status reports mode m.
C25_ModePersists ==
    \A q, r \in Req :
        (LastModeChange(q, r) /\ req[q].kind = "mode")
            => /\ RunByWorkflow(r) => req[r].workflow = req[q].arg
               /\ StatusAnswered(r) => req[r].mode = req[q].arg

\* No /mode or /new of the session of request r precedes it.
NeverChangedMode(r) ==
    \A q \in Req : q < r => ~(req[q].sess = req[r].sess /\ req[q].kind \in {"mode", "new"})

\* C26: a session that has not received /mode since it was created or reset
\* by /new is in plan mode: text messages are run by the plan workflow, and
\* /status and the reply of /new report mode plan.
C26_DefaultModeIsPlan ==
    \A r \in Req :
        /\ (NeverChangedMode(r) \/ \E q \in Req : LastModeChange(q, r) /\ req[q].kind = "new")
              => /\ RunByWorkflow(r) => req[r].workflow = "plan"
                 /\ StatusAnswered(r) => req[r].mode = "plan"
        /\ (req[r].pc = "done" /\ req[r].kind = "new") => req[r].mode = "plan"

\* ---------------------------------------------------- claims on the router
Routed == route.pc = "routed"

\* The first token of the routed text names a reserved command.
IsReserved ==
    /\ route.input.tokens # <<>>
    /\ route.input.tokens[1].slash
    /\ route.input.tokens[1].word \in Reserved

\* The routed text starts with a slash and names no reserved command.
IsOtherSlash ==
    /\ route.input.tokens # <<>>
    /\ route.input.tokens[1].slash
    /\ route.input.tokens[1].word \notin Reserved

\* The kinds and command names of C27, with the text a pass-through carries
\* left open.
RouteKinds(carried) ==
    Routed =>
        /\ route.input.tokens = <<>>
              => route.result.kind = "text" /\ route.result.text = EmptyText
        /\ IsReserved
              => /\ route.result.kind = "bot_command"
                 /\ route.result.command = route.input.tokens[1].word
                 /\ route.handler = "bot_command"
        /\ IsOtherSlash
              => /\ route.result.kind = "codex_slash"
                 /\ route.result.text = carried
                 /\ route.handler = "workflow"
                 /\ route.input_text = carried
        /\ (route.input.tokens # <<>> /\ ~route.input.tokens[1].slash)
              => route.result.kind = "text" /\ route.handler = "workflow"

\* C27 as stated: blank text is routed as text with an empty payload, a
\* reserved command in any case and with any @mention as bot_command with
\* its name, any other slash text as codex_slash carrying the original text,
\* which goes to the workflow, and all other text as text.
C27_RouteCarriesOriginalText == RouteKinds(route.input)

\* C27 (amended): as above, but a pass-through carries the text without the
\* whitespace around it.
C27_RouteClassifies == RouteKinds(Strip(route.input))

\* A padded two-token slash command that is not reserved was passed through.
C27_Witness ==
    /\ Routed /\ IsOtherSlash
    /\ route.input.lead /\ route.input.trail
    /\ Len(route.input.tokens) = 2
    /\ route.input.tokens[1].upper /\ route.input.tokens[1].mention

\* The tokens after the command, each as one argument.
RemainingTokens ==
    [i \in 1..(Len(route.input.tokens) - 1) |-> <<route.input.tokens[i + 1]>>]

C29_SingleRunOneDeveloperCall ==
    single.wpc = "returned"
        => /\ single.developer_calls = 1
           /\ single.reviewer_calls = 0
           /\ single.review_round = 0
           /\ single.review_result = "approved"

\* ------------------------------------------------- claims on the executor
\* C30: a run that was cancelled during call_tool ends with CancelledError,
\* and the executor is then not started and holds no session.
C30_CancelReleasesThenPropagates ==
    (executor.pc = "ended" /\ executor.cancelled_in_call)
        => /\ executor.outcome = "CancelledError"
           /\ ~executor.started
           /\ ~executor.session

\* ------------------------------------------- claims on the multi workflow
RoleIndex(role) == CHOOSE i \in 1..Len(RoleOrder) : RoleOrder[i] = role
CallsOf(role) == {i \in 1..Len(multi.calls) : multi.calls[i].role = role}
RoleCalls == {i \in 1..Len(multi.calls) : multi.calls[i].role \in Roles}

\* C31: the roles are called in the order designer, frontend developer,
\* backend developer, tester; a disabled role is never called; a role is
\* called at most max_role_retries + 1 times; every call after the first of a
\* role is made while required outputs of the role are missing and lists them
\* in its prompt, and the first lists none; and a run that returns has called
\* every enabled role, and the manager exactly once after the roles, last.
C31_MultiRolesInOrderBoundedRetries ==
    LET calls == multi.calls
    IN /\ \A i, j \in RoleCalls :
              i < j => RoleIndex(calls[i].role) <= RoleIndex(calls[j].role)
       /\ \A i \in RoleCalls : multi.enabled[calls[i].role]
       /\ \A role \in Roles : Cardinality(CallsOf(role)) <= multi.max_role_retries + 1
       /\ \A i \in RoleCalls :
              /\ calls[i].attempt = Cardinality({j \in CallsOf(calls[i].role) : j <= i})
              /\ calls[i].attempt = 1 => calls[i].addendum = {}
              /\ calls[i].attempt > 1 =>
                    /\ calls[i].addendum # {}
                    /\ calls[i].addendum =
                           multi.required_outputs[calls[i].role] \ calls[i].before
       /\ \A i \in CallsOf("manager") : i = 1 \/ (i = Len(calls) /\ RoleCalls \subseteq 1..(i - 1))
       /\ multi.wpc = "returned" =>
              /\ \A role \in Roles : multi.enabled[role] => CallsOf(role) # {}
              /\ Len(calls) > 1
              /\ calls[Len(calls)].role = "manager"

\* A run that returned after retrying one role, calling another once and
\* skipping a third.
C31_Witness ==
    /\ multi.wpc = "returned"
    /\ \E role \in Roles : Cardinality(CallsOf(role)) = 2
    /\ \E role \in Roles : Cardinality(CallsOf(role)) = 1 /\ multi.required_outputs[role] # {}
    /\ \E role \in Roles : ~multi.enabled[role]

\* ------------------------------------------------------ claims on /cancel
\* C32: a /cancel handled while a workflow run of its session is in flight
\* never replies "no running task": it finds the task and requests its
\* cancellation.
C32_CancelFindsInFlightRun ==
    \A r \in Req :
        (req[r].pc = "done" /\ req[r].kind = "cancel" /\ req[r].in_flight)
            => req[r].reply = "requested"

\* ------------------------------------------- claims on the other commands
\* C33: handling /start, /status, /mode or /profile, accepted or rejected,
\* for a session that has a run in flight and its persisted run_lock set
\* leaves the persisted run_lock set.
C33_CommandsKeepRunLock ==
    [][\A r \in Req :
          (req[r].pc = "idle" /\ req'[r].pc = "done"
             /\ req'[r].kind \in {"start", "status", "mode", "profile"})
          => LET s == req'[r].sess
             IN (RunInFlight(s) /\ disk[s].exists /\ disk[s].run_lock) => disk'[s].run_lock]_vars

\* ---------------------------------------------- claims on /new during a run
\* C34: after the merge of a run during which /new was handled, the persisted
\* history contains no turn that /new discarded.
C34_ResetNotUndoneByMerge ==
    (hist.pc = "idle" /\ hist.reset_in_run)
        => \A i \in 1..Len(hist.persisted), j \in 1..Len(hist.reset_turns) :
               hist.persisted[i] # hist.reset_turns[j]

\* ------------------------------------- claims on the Developer calls of a run
DeveloperCallsOfRound(round) ==
    {k \in 1..Len(plan.developer_calls) : plan.developer_calls[k].round_index = round}

\* C35 as stated: the k-th Developer call of a run is the only one of round
\* k, the first has no feedback, every later one has the feedback of the
\* previous round's review, stripped and cut to the limit, and there are at
\* most max_review_rounds of them.
C35_OneDeveloperCallPerRound ==
    /\ Len(plan.developer_calls) <= plan.max_review_rounds
    /\ \A k \in 1..Len(plan.developer_calls) :
          /\ plan.developer_calls[k].round_index = k
          /\ plan.developer_calls[k].review_feedback.round = k - 1

\* C35, amended: the Developer is called once at the start of every round,
\* without feedback in round 1 and else with the feedback of the previous
\* round's review, and once more in the round after a needs_changes review,
\* with the feedback of that review; every feedback handed over is stripped
\* and at most 1200 characters long plus the ellipsis; so a run makes at most
\* 2 * max_review_rounds Developer calls.
C35_DeveloperCallsPerRound ==
    LET calls == plan.developer_calls
    IN /\ Len(calls) <= 2 * plan.max_review_rounds
       /\ \A k \in 1..Len(calls) :
             LET round == calls[k].round_index
                 first == \A j \in DeveloperCallsOfRound(round) : k <= j
                 given == calls[k].review_feedback
                 from == IF first THEN round - 1 ELSE round
             IN /\ round \in 1..plan.max_review_rounds
                /\ Cardinality(DeveloperCallsOfRound(round)) <= 2
                /\ \A j \in 1..(k - 1) : calls[j].round_index <= round
                /\ given.round = from
                /\ from = 0 => given = NoFeedback
                /\ from > 0 =>
                      /\ plan.rounds[from].result = "needs_changes"
                      /\ ~given.pad
                      /\ given.len <= MaxReviewFeedbackChars + 3
                      /\ given.cut = (plan.feedbacks[from].len > MaxReviewFeedbackChars)
                      /\ ~given.cut => given.len = plan.feedbacks[from].len
       /\ \A round \in 1..Len(plan.rounds) :
             (plan.rounds[round].result = "needs_changes" /\ plan.wpc # "raised")
                 => Cardinality(DeveloperCallsOfRound(round)) = 2

\* A returned run whose second round was reviewed after a needs_changes
\* review with a feedback over the limit in round 1.
C35_Witness ==
    /\ plan.wpc = "returned"
    /\ Len(plan.rounds) >= 2
    /\ plan.rounds[1].result = "needs_changes"
    /\ plan.feedbacks[1].len > MaxReviewFeedbackChars
    /\ plan.feedbacks[1].pad
    /\ Cardinality(DeveloperCallsOfRound(1)) = 2

\* --------------------------------------- claims on the stage-transition log
\* C36 as stated: no step of a run removes a record of the stage-transition
\* log or changes one.
C36_TransitionsNeverMutated ==
    [][\A i \in 1..Len(plan.stage_transitions) :
          /\ i <= Len(plan'.stage_transitions)
          /\ plan'.stage_transitions[i] = plan.stage_transitions[i]]_vars

\* C36, amended: no step of a run removes a record of the stage-transition
\* log or changes its from, to or round; the status of a record changes only
\* when the Reviewer answers, and then only that of the last record, the
\* developer to reviewer record of the round appended as pending, which
\* becomes the Reviewer's decision.
C36_TransitionsAppendOnlyButPending ==
    [][\A i \in 1..Len(plan.stage_transitions) :
          LET old == plan.stage_transitions[i]
          IN /\ i <= Len(plan'.stage_transitions)
             /\ LET new == plan'.stage_transitions[i]
                IN /\ new.from = old.from
                   /\ new.to = old.to
                   /\ new.round = old.round
                   /\ new.status # old.status =>
                         /\ i = Len(plan.stage_transitions)
                         /\ plan.wpc = "reviewer"
                         /\ old.from = "developer" /\ old.to = "reviewer"
                         /\ old.round = plan.round_index
                         /\ old.status = "pending"
                         /\ new.status = plan'.last_decision]_vars

\* A run in which a record written as pending has become needs_changes and
\* further records follow it.
C36_Witness ==
    \E i \in 1..Len(plan.stage_transitions) :
        /\ plan.stage_transitions[i].to = "reviewer"
        /\ plan.stage_transitions[i].status = "needs_changes"
        /\ i < Len(plan.stage_transitions)

\* -------------------------------------- claims on the Reviewer's answer
\* C37: parsing a Reviewer answer returns a decision and never raises; an
\* object whose result is approved or needs_changes gives that result; an
\* answer json.loads fails on, and an answer that contains the word approved
\* and not the word needs_changes, gives approved.
C37_ParseNeverRaises ==
    review.pc = "parsed" =>
        LET raw == review.raw
            decision == review.decision
        IN /\ decision.outcome = "returned"
           /\ (raw.json = "object" /\ raw.result \in {"approved", "needs_changes"})
                 => decision.result = raw.result
           /\ raw.json \in {"JSONDecodeError", "OtherError"} => decision.result = "approved"
           /\ (raw.has_approved /\ ~raw.has_needs_changes) => decision.result = "approved"

\* ------------------------------------------ claims on the agent transfers
\* C38: the transfers of a returned plan-mode run begin with selector to
\* planner in round 0 and planner to developer in round 1, and end with the
\* only transfer to completed, which carries the review round of the result.
C38_TransfersBeginAndEndCompleted ==
    (plan.wpc = "returned" /\ plan.selector_mode = "plan") =>
        LET transfers == plan.transfers
            last == Len(transfers)
        IN /\ last >= 3
           /\ transfers[1] = <<"selector", "planner", 0>>
           /\ transfers[2] = <<"planner", "developer", 1>>
           /\ transfers[last][2] = "completed"
           /\ transfers[last][3] = plan.result.review_round
           /\ \A i \in 1..last : transfers[i][2] = "completed" => i = last


\* C39: a returned plan-mode run of a workflow built with max_review_rounds
\* = 1 has called the Developer once and the Reviewer never, returns round 0
\* and approved, and has emitted exactly three transfers.
C39_OneRoundSkipsReviewer ==
    (plan.wpc = "returned" /\ plan.selector_mode = "plan" /\ plan.max_review_rounds = 1) =>
        /\ plan.reviewer_calls = << >>
        /\ Len(plan.developer_calls) = 1
        /\ plan.result.review_round = 0
        /\ plan.result.review_result = "approved"
        /\ plan.transfers = << <<"selector", "planner", 0>>,
                               <<"planner", "developer", 1>>,
                               <<"developer", "completed", 1>> >>

\* ------------------------------------------ claims on the wait after /cancel
\* C40: when the timeout of the wait after /cancel expired with the request
\* still running, the wait returned "not completed", which the loop reported
\* with its warning; the wait did not cancel the request, and the loop is
\* polling again.
C40_WaitBoundedByTimeout ==
    poll.timed_out =>
        /\ poll.completed = "no"
        /\ poll.warned
        /\ ~poll.cancelled_by_wait
        /\ poll.pc = "polling"
        /\ poll.task # "none"
        /\ poll.task = "cancelled" => poll.cancel_requested

\* The loop handles a further update after a wait that timed out, the
\* request still running.
C40_Witness ==
    /\ poll.timed_out
    /\ poll.task = "running"
    /\ poll.completed = "no"
    /\ poll.updates >= 2

====
